---- MODULE Spec2Model ----
(***************************************************************************)
(* A model of the idle-game engine: the transactional runtime             *)
(* (idleengine/runtime.py), the GreedyROI speculative purchase            *)
(* (idleengine/strategy.py), the two time-advance loops of the            *)
(* Simulation (idleengine/simulation.py) with its terminal conditions     *)
(* (idleengine/terminal.py), the Monte Carlo batch (idleengine/cli.py),   *)
(* GameDefinition.validate (idleengine/definition.py), the game-state and *)
(* purchase tools of the MCP server (idleengine/mcp/server.py) and the    *)
(* SaveForBest and PriorityList strategies (idleengine/strategy.py).      *)
(*                                                                         *)
(* Specifications.  Spec: the public operations of a runtime of the       *)
(* CoreGame in any order.  SpecPipe: the same over the PipelineGame.      *)
(* SpecSim: a tick-mode and an event-jump run of one definition and       *)
(* strategy; FairSim adds that a run takes the steps it can.  SpecMC: a   *)
(* run made on its own, then a batch of runs over shared objects.         *)
(* SpecClick: the public operations over the ClickGame (clicks,           *)
(* auto-clicks and a cap).  SpecValidate: validate and the construction   *)
(* of a runtime over a family of definitions, well formed and not.        *)
(* SpecStrategy: the operations over the ShopGame, interleaved with the   *)
(* purchase decisions of SaveForBest and PriorityList.  SpecRun: the two  *)
(* loops of the Simulation, pass by pass, under each built-in strategy    *)
(* class (GreedyCheapest, GreedyROI, SaveForBest, PriorityList).          *)
(*                                                                         *)
(* Numbers.  The program computes with Python floats.  The model computes *)
(* with exact rationals <<n, d>> (d > 0, lowest terms), so that the       *)
(* divisions of compute_time_to_afford and the fractional COST_MULT       *)
(* values are computed, not approximated; IEEE rounding is not modelled.  *)
(* Element counts, click counts and the run number are integers.          *)
(*                                                                         *)
(* Optional values.  Python's None is the empty sequence <<>>, a present  *)
(* value v is <<v>>.                                                       *)
(***************************************************************************)
EXTENDS Integers, Sequences, FiniteSets, TLC

VARIABLES
    definition, \* GameRuntime.definition: the GameDefinition it was built from
    rt,         \* a GameRuntime: [state |-> GameState, dirty |-> _dirty]
    last,       \* the last public operation: its name, argument and result
    strat,      \* the Simulation's strategy configuration
    simT,       \* a Simulation in tick mode (runtime, context, collector)
    simJ        \* a Simulation in event-jump mode, same definition/strategy

vars == <<definition, rt, last, strat, simT, simJ>>

----------------------------------------------------------------------------
(* Exact rational arithmetic                                               *)

Abs(n) == IF n < 0 THEN -n ELSE n

RECURSIVE GCD(_, _)
GCD(a, b) == IF b = 0 THEN a ELSE GCD(b, a % b)

Rat(n, d) ==
    LET s == IF d < 0 THEN -1 ELSE 1
        g == GCD(Abs(n), Abs(d))
    IN  IF n = 0 THEN <<0, 1>> ELSE <<(s * n) \div g, (s * d) \div g>>

R(n) == <<n, 1>>
RAdd(a, b) == Rat(a[1] * b[2] + b[1] * a[2], a[2] * b[2])
RSub(a, b) == Rat(a[1] * b[2] - b[1] * a[2], a[2] * b[2])
RMul(a, b) == Rat(a[1] * b[1], a[2] * b[2])
RDiv(a, b) == Rat(a[1] * b[2], a[2] * b[1])
RLt(a, b) == a[1] * b[2] < b[1] * a[2]
RLe(a, b) == a[1] * b[2] <= b[1] * a[2]
RGt(a, b) == RLt(b, a)
RGe(a, b) == RLe(b, a)
\* int(x): truncation toward zero
RInt(a) == IF a[1] >= 0 THEN a[1] \div a[2] ELSE -((-a[1]) \div a[2])

RECURSIVE RSum(_)
RSum(s) == IF s = <<>> THEN R(0) ELSE RAdd(Head(s), RSum(Tail(s)))

RECURSIVE RProd(_)
RProd(s) == IF s = <<>> THEN R(1) ELSE RMul(Head(s), RProd(Tail(s)))

RECURSIVE Flatten(_)
Flatten(ss) == IF ss = <<>> THEN <<>> ELSE Head(ss) \o Flatten(Tail(ss))

Range(s) == {s[i] : i \in 1..Len(s)}

----------------------------------------------------------------------------
(* Definition constructors (the dataclasses of the definition layer)       *)

None == <<>>
Some(x) == <<x>>

\* _types.compare
compare(left, op, right) ==
    CASE op = ">=" -> RGe(left, right)
      [] op = "<=" -> RLe(left, right)
      [] op = ">"  -> RGt(left, right)
      [] op = "<"  -> RLt(left, right)
      [] op = "==" -> left = right
      [] op = "!=" -> left # right

\* Req factory
ReqResource(c, op, t)    == [kind |-> "resource", currency_id |-> c, op |-> op, threshold |-> t]
ReqTotalEarned(c, op, t) == [kind |-> "total_earned", currency_id |-> c, op |-> op, threshold |-> t]
ReqOwns(e)               == [kind |-> "owns", element_id |-> e]
ReqCount(e, op, t)       == [kind |-> "count", element_id |-> e, op |-> op, threshold |-> t]
ReqMilestone(m)          == [kind |-> "milestone", milestone_id |-> m]
ReqTime(op, s)           == [kind |-> "time", op |-> op, seconds |-> s]
ReqAll(rs)               == [kind |-> "all", reqs |-> rs]
ReqAny(rs)               == [kind |-> "any", reqs |-> rs]

\* EstimatedTimeRequirement: _sampled_time is None until the first evaluate
EstimatedTimeRequirement(mean, variance) ==
    [kind |-> "estimated_time", mean |-> mean, variance |-> variance,
     sampled_time |-> None]

\* effect.DEFAULT_PHASE
DEFAULT_PHASE(type) ==
    CASE type = "PRODUCTION_FLAT"    -> "BASE"
      [] type = "PRODUCTION_ADD_PCT" -> "BONUS_ADD"
      [] type = "PRODUCTION_MULT"    -> "BONUS_MULT"
      [] type = "GLOBAL_MULT"        -> "GLOBAL"
      [] type \in {"CLICK_FLAT", "CLICK_MULT"} -> "CLICK"
      [] type = "COST_MULT"          -> "COST"
      [] type \in {"CAP_FLAT", "CAP_MULT"} -> "CAP"
      [] type = "AUTO_CLICK"         -> "AUTO"
      [] type \in {"GRANT", "UNLOCK"} -> "IMMEDIATE"
      [] OTHER                       -> "CUSTOM"

\* Effect.static / Effect.per_count (Effect.synergy is per_count of another element)
EffectStatic(type, target, v, cond) ==
    [type |-> type, target |-> target, value |-> [kind |-> "static", v |-> v],
     condition |-> cond, phase |-> DEFAULT_PHASE(type)]
EffectPerCount(element, type, target, per_unit, cond) ==
    [type |-> type, target |-> target,
     value |-> [kind |-> "per_count", element |-> element, per_unit |-> per_unit],
     condition |-> cond, phase |-> DEFAULT_PHASE(type)]

CurrencyDef(id, initial_value, cap, persistent) ==
    [id |-> id, initial_value |-> initial_value, cap |-> cap, persistent |-> persistent]

ElementDef(id, base_cost, cost_scaling, max_count, effects, requirements, purchase_requirements, tags) ==
    [id |-> id, base_cost |-> base_cost, cost_scaling |-> cost_scaling,
     max_count |-> max_count, effects |-> effects, requirements |-> requirements,
     purchase_requirements |-> purchase_requirements, tags |-> tags]

MilestoneDef(id, trigger) == [id |-> id, trigger |-> trigger]

PrestigeLayerDef(id, prestige_currency, reward_formula, currencies_reset, elements_reset, requirements, minimum_reward) ==
    [id |-> id, prestige_currency |-> prestige_currency,
     reward_formula |-> reward_formula, currencies_reset |-> currencies_reset,
     elements_reset |-> elements_reset, requirements |-> requirements,
     minimum_reward |-> minimum_reward]

ClickTarget(currency, base_value) == [currency |-> currency, base_value |-> base_value]

\* CostScaling.fixed / exponential / linear
ScalingFixed          == [kind |-> "fixed"]
ScalingExponential(g) == [kind |-> "exponential", growth_rate |-> g]
ScalingLinear(p)      == [kind |-> "linear", increment_pct |-> p]

----------------------------------------------------------------------------
(* GameState and its accessors (state.py)                                  *)

SeqIds(s) == {s[i].id : i \in 1..Len(s)}

\* dict lookup by id in a definition list: the entry with that id
ById(s, id) == s[CHOOSE i \in 1..Len(s) : s[i].id = id]

CurrencyState(current, total_earned, current_rate) ==
    [current |-> current, total_earned |-> total_earned, current_rate |-> current_rate]

ElementState ==
    [count |-> 0, available |-> FALSE, affordable |-> FALSE, unlocked |-> FALSE]

GameState(defn) ==
    [time_elapsed |-> R(0),
     currencies |-> [c \in SeqIds(defn.currencies) |->
                        CurrencyState(ById(defn.currencies, c).initial_value,
                                      ById(defn.currencies, c).initial_value, R(0))],
     elements |-> [e \in SeqIds(defn.elements) |-> ElementState],
     milestones_reached |-> <<>>,
     prestige_counts |-> [l \in SeqIds(defn.prestige_layers) |-> 0],
     run_number |-> 1]

currency_value(st, id) ==
    IF id \in DOMAIN st.currencies THEN st.currencies[id].current ELSE R(0)

currency_rate(st, id) ==
    IF id \in DOMAIN st.currencies THEN st.currencies[id].current_rate ELSE R(0)

element_count(st, id) ==
    IF id \in DOMAIN st.elements THEN st.elements[id].count ELSE 0

\* milestones_reached is an insertion-ordered dict id -> time: a sequence of entries
has_milestone(st, id) ==
    \E i \in 1..Len(st.milestones_reached) : st.milestones_reached[i].id = id

total_earned(st, id) ==
    IF id \in DOMAIN st.currencies THEN st.currencies[id].total_earned ELSE R(0)

\* state.currencies[id] = cs and state.elements[id] = es: every other entry kept
SetCurrency(st, id, cs) ==
    [st EXCEPT !.currencies =
        [c \in DOMAIN st.currencies |-> IF c = id THEN cs ELSE st.currencies[c]]]

SetElement(st, id, es) ==
    [st EXCEPT !.elements =
        [e \in DOMAIN st.elements |-> IF e = id THEN es ELSE st.elements[e]]]

----------------------------------------------------------------------------
(* Requirements (requirement.py), effects (effect.py), cost scaling        *)
RECURSIVE Evaluate(_, _)
Evaluate(req, st) ==
    CASE req.kind = "resource" ->
            compare(currency_value(st, req.currency_id), req.op, req.threshold)
      [] req.kind = "total_earned" ->
            compare(total_earned(st, req.currency_id), req.op, req.threshold)
      [] req.kind = "owns" -> element_count(st, req.element_id) >= 1
      [] req.kind = "count" ->
            compare(R(element_count(st, req.element_id)), req.op, R(req.threshold))
      [] req.kind = "milestone" -> has_milestone(st, req.milestone_id)
      [] req.kind = "time" -> compare(st.time_elapsed, req.op, req.seconds)
      [] req.kind = "all" -> \A i \in 1..Len(req.reqs) : Evaluate(req.reqs[i], st)
      [] req.kind = "any" -> \E i \in 1..Len(req.reqs) : Evaluate(req.reqs[i], st)
      [] req.kind = "estimated_time" -> RGe(st.time_elapsed, req.sampled_time[1])

\* all(r.evaluate(state) for r in reqs)
EvaluateAll(reqs, st) == \A i \in 1..Len(reqs) : Evaluate(reqs[i], st)

\* EffectDef.resolve
resolve(eff, st) ==
    IF eff.value.kind = "static"
    THEN eff.value.v
    ELSE RMul(R(element_count(st, eff.value.element)), eff.value.per_unit)

\* EffectDef.is_active
is_active(eff, st) ==
    IF eff.condition = None THEN TRUE ELSE Evaluate(eff.condition[1], st)

RECURSIVE RPow(_, _)
RPow(a, n) == IF n = 0 THEN R(1) ELSE RMul(a, RPow(a, n - 1))

\* CostScaling.compute
cost_scaling_compute(edef, current_count) ==
    LET sc == edef.cost_scaling
        mult == CASE sc.kind = "fixed" -> R(1)
                  [] sc.kind = "exponential" -> RPow(sc.growth_rate, current_count)
                  [] sc.kind = "linear" ->
                        RAdd(R(1), RMul(sc.increment_pct, R(current_count)))
    IN  [k \in DOMAIN edef.base_cost |-> RMul(edef.base_cost[k], mult)]

----------------------------------------------------------------------------
(* The game definitions the model is run on.  Each is a GameDefinition    *)
(* that passes validate().                                                 *)

Half == Rat(1, 2)
Quarter == Rat(1, 4)

\* reward_formula is a callable of the state: a constant (as in the tests), or a
\* share of a currency's total earned
RewardConst(v) == [kind |-> "const", v |-> v]
RewardShare(c, k) == [kind |-> "share", currency_id |-> c, factor |-> k]

\* currencies_reset / elements_reset: list[str] | str
ResetList(ids) == [kind |-> "list", ids |-> ids]
AllNonPersistent == [kind |-> "all_non_persistent"]

\* A game with every feature the runtime operations branch on: a two-currency
\* cost, a cost multiplier, grants, an unlock, requirement-gated availability,
\* a purchase requirement, a max count, a persistent currency and element, and
\* two prestige layers (the sentinel and explicit reset lists).
CoreGame ==
    [currencies |-> <<CurrencyDef("gold", R(3), None, FALSE),
                      CurrencyDef("gems", R(1), None, TRUE)>>,
     elements |-> <<
        ElementDef("miner", [gold |-> R(2)], ScalingLinear(R(1)), None,
                   <<EffectPerCount("miner", "PRODUCTION_FLAT", "gold", R(1), None)>>,
                   <<>>, <<>>, {}),
        ElementDef("forge", [gold |-> R(3), gems |-> R(1)], ScalingFixed, Some(1),
                   <<EffectStatic("COST_MULT", "miner", Half, None),
                     EffectStatic("GRANT", "gold", R(1),
                                  Some(ReqResource("gold", ">=", R(100))))>>,
                   <<ReqCount("miner", ">=", 1)>>,
                   <<ReqTime(">=", R(1))>>, {}),
        ElementDef("relic", [gems |-> R(1)], ScalingFixed, Some(1),
                   <<EffectStatic("UNLOCK", "vault", R(0),
                                  Some(ReqResource("gold", ">=", R(100)))),
                     EffectStatic("PRODUCTION_MULT", "gold", R(2), None)>>,
                   <<ReqMilestone("first_miner")>>, <<>>, {"persistent"}),
        ElementDef("vault", [gold |-> R(1)], ScalingFixed, Some(1),
                   <<EffectStatic("GRANT", "gems", R(1), None)>>,
                   <<ReqResource("gold", ">=", R(100))>>, <<>>, {})>>,
     milestones |-> <<MilestoneDef("first_miner", Some(ReqOwns("miner"))),
                      MilestoneDef("rich", Some(ReqResource("gold", ">=", R(5)))),
                      MilestoneDef("veteran", Some(ReqTime(">=", R(2))))>>,
     prestige_layers |-> <<
        PrestigeLayerDef("rebirth", "gems", Some(RewardConst(R(1))),
                         AllNonPersistent, AllNonPersistent,
                         <<ReqOwns("miner")>>, R(1)),
        PrestigeLayerDef("ascend", "gems", Some(RewardShare("gold", Quarter)),
                         ResetList(<<"gold", "gems">>), ResetList(<<"miner", "relic">>),
                         <<ReqTotalEarned("gold", ">=", R(3))>>, R(1))>>,
     click_targets |-> <<ClickTarget("gold", R(1))>>]

\* One producer and one element that production pays for after ten seconds; the
\* milestones are listed in the order opposite to the one a steady income reaches
\* them in.
OrderGame ==
    [currencies |-> <<CurrencyDef("gold", R(2), None, FALSE)>>,
     elements |-> <<
        ElementDef("miner", [gold |-> R(2)], ScalingFixed, Some(1),
                   <<EffectPerCount("miner", "PRODUCTION_FLAT", "gold", R(1), None)>>,
                   <<>>, <<>>, {}),
        ElementDef("palace", [gold |-> R(10)], ScalingFixed, Some(1),
                   <<>>, <<>>, <<>>, {})>>,
     milestones |-> <<MilestoneDef("rich", Some(ReqResource("gold", ">=", R(5)))),
                      MilestoneDef("late", Some(ReqTime(">=", R(3))))>>,
     prestige_layers |-> <<>>,
     click_targets |-> <<ClickTarget("gold", R(1))>>]

\* The same two elements under a cap of 5 gold and without a click target: the
\* palace costs more than the currency can ever hold.
CapGame ==
    [currencies |-> <<CurrencyDef("gold", R(2), Some(R(5)), FALSE)>>,
     elements |-> <<
        ElementDef("miner", [gold |-> R(2)], ScalingFixed, Some(1),
                   <<EffectPerCount("miner", "PRODUCTION_FLAT", "gold", R(1), None)>>,
                   <<>>, <<>>, {}),
        ElementDef("palace", [gold |-> R(10)], ScalingFixed, Some(1),
                   <<>>, <<>>, <<>>, {})>>,
     milestones |-> <<MilestoneDef("full", Some(ReqResource("gold", ">=", R(5))))>>,
     prestige_layers |-> <<>>,
     click_targets |-> <<>>]

\* test_stall_detection_event_jump: no income at all, and the only producer costs
\* what is never earned
StallGame ==
    [currencies |-> <<CurrencyDef("gold", R(0), None, FALSE)>>,
     elements |-> <<
        ElementDef("expensive", [gold |-> R(1000)], ScalingFixed, None,
                   <<EffectPerCount("expensive", "PRODUCTION_FLAT", "gold", R(1), None)>>,
                   <<>>, <<>>, {})>>,
     milestones |-> <<>>,
     prestige_layers |-> <<>>,
     click_targets |-> <<>>]

\* A miner and a milestone whose trigger is an EstimatedTimeRequirement with a
\* spread, so that its time depends on the run's random generator.
EstimateGame ==
    [currencies |-> <<CurrencyDef("gold", R(2), None, FALSE)>>,
     elements |-> <<
        ElementDef("miner", [gold |-> R(2)], ScalingFixed, Some(1),
                   <<EffectPerCount("miner", "PRODUCTION_FLAT", "gold", R(1), None)>>,
                   <<>>, <<>>, {})>>,
     milestones |-> <<MilestoneDef("found", Some(EstimatedTimeRequirement(R(2), R(2)))),
                      MilestoneDef("rich", Some(ReqResource("gold", ">=", R(5))))>>,
     prestige_layers |-> <<>>,
     click_targets |-> <<ClickTarget("gold", R(1))>>]

\* Every layer of the production pipeline on gold, a second currency that only
\* the flat layer targets, and a GLOBAL_MULT that becomes active with time.
PipelineGame ==
    [currencies |-> <<CurrencyDef("gold", R(4), None, FALSE),
                      CurrencyDef("ore", R(0), None, FALSE)>>,
     elements |-> <<
        ElementDef("miner", [gold |-> R(2)], ScalingFixed, Some(1),
                   <<EffectStatic("PRODUCTION_FLAT", "gold", R(2), None),
                     EffectStatic("PRODUCTION_FLAT", "ore", R(1), None)>>,
                   <<>>, <<>>, {}),
        ElementDef("drill", [gold |-> R(1)], ScalingFixed, Some(1),
                   <<EffectStatic("PRODUCTION_ADD_PCT", "gold", Half, None),
                     EffectStatic("GLOBAL_MULT", "gold", R(2),
                                  Some(ReqTime(">=", R(2))))>>,
                   <<>>, <<>>, {}),
        ElementDef("rig", [gold |-> R(1)], ScalingFixed, Some(1),
                   <<EffectStatic("PRODUCTION_MULT", "gold", R(3), None)>>,
                   <<>>, <<>>, {})>>,
     milestones |-> <<>>,
     prestige_layers |-> <<
        PrestigeLayerDef("reset", "ore", Some(RewardConst(R(1))),
                         AllNonPersistent, AllNonPersistent,
                         <<ReqOwns("rig")>>, R(1))>>,
     click_targets |-> <<ClickTarget("gold", R(1))>>]

\* a capped currency with a click target, an uncapped one without; auto-click,
\* click, production and cap effects; one element that costs nothing
ClickGame ==
    [currencies |-> <<CurrencyDef("gold", R(3), Some(R(5)), FALSE),
                      CurrencyDef("gems", R(0), None, FALSE)>>,
     elements |-> <<
        ElementDef("bot", [gold |-> R(1)], ScalingFixed, Some(1),
                   <<EffectStatic("AUTO_CLICK", "gold", R(1), None),
                     EffectStatic("AUTO_CLICK", "gold", Half,
                                  Some(ReqTime(">=", R(1))))>>, <<>>, <<>>, {}),
        ElementDef("mine", [gold |-> R(2)], ScalingFixed, Some(1),
                   <<EffectStatic("PRODUCTION_FLAT", "gold", R(1), None),
                     EffectStatic("PRODUCTION_FLAT", "gems", R(1), None),
                     EffectStatic("CAP_FLAT", "gold", R(1), None)>>, <<>>, <<>>, {}),
        ElementDef("cursor", [gold |-> R(1), gems |-> R(1)], ScalingFixed, Some(1),
                   <<EffectStatic("CLICK_FLAT", "gold", R(1), None),
                     EffectStatic("CLICK_MULT", "gold", R(2),
                                  Some(ReqTime(">=", R(2))))>>, <<>>, <<>>, {}),
        ElementDef("flyer", <<>>, ScalingFixed, Some(1), <<>>, <<>>, <<>>, {})>>,
     milestones |-> <<>>,
     prestige_layers |-> <<>>,
     click_targets |-> <<ClickTarget("gold", R(2))>>]

Games == <<CoreGame, OrderGame, CapGame, StallGame>>

\* the definitions driven call by call, and the definitions simulated
RuntimeGames == {1}
SimGames == {1, 2, 3, 4}

\* GameDefinition.get_currency / get_element / get_prestige_layer / get_click_target
get_currency(id) ==
    IF id \in SeqIds(definition.currencies)
    THEN Some(ById(definition.currencies, id)) ELSE None

get_element(id) ==
    IF id \in SeqIds(definition.elements)
    THEN Some(ById(definition.elements, id)) ELSE None

get_prestige_layer(id) ==
    IF id \in SeqIds(definition.prestige_layers)
    THEN Some(ById(definition.prestige_layers, id)) ELSE None

get_click_target(currency) ==
    LET cts == definition.click_targets
    IN  IF \E i \in 1..Len(cts) : cts[i].currency = currency
        THEN Some(cts[CHOOSE i \in 1..Len(cts) : cts[i].currency = currency])
        ELSE None

----------------------------------------------------------------------------
(* GameRuntime private helpers (runtime.py)                                *)

\* the effects of the elements with count > 0, in definition order
\* (the loop header shared by the helpers below)
OwnedEffects(st) ==
    Flatten([i \in 1..Len(definition.elements) |->
                IF st.elements[definition.elements[i].id].count <= 0
                THEN <<>> ELSE definition.elements[i].effects])

Resolved(effs, st) == [i \in 1..Len(effs) |-> resolve(effs[i], st)]

\* the (type, resolved value) pairs handed to the ProductionPipeline
TypedValues(effs, st) ==
    [i \in 1..Len(effs) |-> <<effs[i].type, resolve(effs[i], st)>>]

\* the owned effects of the given types on one target that are active
ActiveOn(st, types, target) ==
    SelectSeq(OwnedEffects(st),
              LAMBDA eff : eff.type \in types /\ eff.target = target
                           /\ is_active(eff, st))

\* state.currencies.get(id): current += amount and total_earned += amount
Earn(st, id, amount) ==
    IF id \in DOMAIN st.currencies
    THEN SetCurrency(st, id,
            [st.currencies[id] EXCEPT !.current = RAdd(@, amount),
                                      !.total_earned = RAdd(@, amount)])
    ELSE st

\* state.currencies.get(id): current += amount, and total_earned += amount
\* "if amount > 0"
Credit(st, id, amount) ==
    IF id \in DOMAIN st.currencies
    THEN SetCurrency(st, id,
            [st.currencies[id] EXCEPT
                !.current = RAdd(@, amount),
                !.total_earned = IF RGt(amount, R(0)) THEN RAdd(@, amount) ELSE @])
    ELSE st

\* state.elements[id].count += n
AddCount(st, id, n) ==
    SetElement(st, id, [st.elements[id] EXCEPT !.count = @ + n])

\* GameRuntime._apply_cost_effects
total_mult(st, element_id) ==
    RProd(Resolved(ActiveOn(st, {"COST_MULT"}, element_id), st))

_apply_cost_effects(st, element_id, cost) ==
    IF total_mult(st, element_id) # R(1)
    THEN [k \in DOMAIN cost |-> RMul(cost[k], total_mult(st, element_id))]
    ELSE cost

\* GameRuntime.compute_current_cost
compute_current_cost(st, element_id) ==
    IF get_element(element_id) = None
    THEN <<>>
    ELSE _apply_cost_effects(st, element_id,
            cost_scaling_compute(get_element(element_id)[1],
                                 st.elements[element_id].count))

\* a coverage test that is content with one covered currency
CoversOne(st, cost) == \E cid \in DOMAIN cost : RGe(currency_value(st, cid), cost[cid])


\* all(state.currency_value(cid) >= amt for cid, amt in cost.items())
Covers(st, cost) == \A cid \in DOMAIN cost : RGe(currency_value(st, cid), cost[cid])

\* GameRuntime._resolve_cap
_resolve_cap(st, currency_id) ==
    IF get_currency(currency_id) = None THEN None
    ELSE IF get_currency(currency_id)[1].cap = None THEN None
    ELSE Some(RMul(RAdd(get_currency(currency_id)[1].cap[1],
                        RSum(Resolved(ActiveOn(st, {"CAP_FLAT"}, currency_id), st))),
                   RProd(Resolved(ActiveOn(st, {"CAP_MULT"}, currency_id), st))))

\* "if cap is not None and cs.current > cap: cs.current = cap"
ClampedTo(current, cap) ==
    IF cap # None /\ RGt(current, cap[1]) THEN cap[1] ELSE current

EnforceCap(st, currency_id) ==
    SetCurrency(st, currency_id,
        [st.currencies[currency_id] EXCEPT
            !.current = ClampedTo(@, _resolve_cap(st, currency_id))])

\* ProductionPipeline.compute_rate, on (type, resolved value) pairs
compute_rate(effects) ==
    LET Of(t) == SelectSeq(effects, LAMBDA p : p[1] = t)
        Vals(s) == [i \in 1..Len(s) |-> s[i][2]]
        flat_sum == RSum(Vals(Of("PRODUCTION_FLAT")))
        add_pct == RSum(Vals(Of("PRODUCTION_ADD_PCT")))
        mult == RProd(Vals(Of("PRODUCTION_MULT")))
        global_mult == RProd(Vals(Of("GLOBAL_MULT")))
    IN  RMul(RMul(RMul(flat_sum, RAdd(R(1), add_pct)), mult), global_mult)

\* a click value that multiplies the base value before adding the flat effects
compute_click_value_flat_last(base_value, effects) ==
    LET Of(t) == SelectSeq(effects, LAMBDA p : p[1] = t)
        Vals(s) == [i \in 1..Len(s) |-> s[i][2]]
    IN  RAdd(RMul(base_value, RProd(Vals(Of("CLICK_MULT")))),
             RSum(Vals(Of("CLICK_FLAT"))))


\* ProductionPipeline.compute_click_value
compute_click_value(base_value, effects) ==
    LET Of(t) == SelectSeq(effects, LAMBDA p : p[1] = t)
        Vals(s) == [i \in 1..Len(s) |-> s[i][2]]
        flat_sum == RAdd(base_value, RSum(Vals(Of("CLICK_FLAT"))))
        click_mult == RProd(Vals(Of("CLICK_MULT")))
    IN  RMul(flat_sum, click_mult)

\* _recompute_rates: the owned effects outside the IMMEDIATE and COST phases
\* that are active
RateEffects(st) ==
    SelectSeq(OwnedEffects(st),
              LAMBDA eff : eff.phase \notin {"IMMEDIATE", "COST"}
                           /\ is_active(eff, st))

\* a recomputation that gives a GLOBAL_MULT effect to its target currency only
_recompute_rates_by_target(st) ==
    [st EXCEPT !.currencies =
        [c \in DOMAIN st.currencies |->
            [st.currencies[c] EXCEPT
                !.current_rate =
                    compute_rate(TypedValues(
                        SelectSeq(RateEffects(st), LAMBDA eff : eff.target = c),
                        st))]]]

\* GameRuntime._recompute_rates: per_currency[c] + global_effects for each c
_recompute_rates(st) ==
    [st EXCEPT !.currencies =
        [c \in DOMAIN st.currencies |->
            [st.currencies[c] EXCEPT
                !.current_rate =
                    compute_rate(TypedValues(
                        SelectSeq(RateEffects(st),
                            LAMBDA eff : eff.type # "GLOBAL_MULT" /\ eff.target = c)
                        \o SelectSeq(RateEffects(st),
                            LAMBDA eff : eff.type = "GLOBAL_MULT"),
                        st))]]]

\* element flags that follow the requirements whether or not the element is
\* unlocked
ElementStatusByRequirements(st, edef) ==
    LET available == IF edef.requirements # <<>>
                     THEN EvaluateAll(edef.requirements, st) ELSE TRUE
    IN  [st.elements[edef.id] EXCEPT
            !.available = available,
            !.affordable =
                IF available /\ (edef.max_count = None
                                 \/ st.elements[edef.id].count < edef.max_count[1])
                THEN Covers(st, _apply_cost_effects(st, edef.id,
                                    cost_scaling_compute(edef,
                                        st.elements[edef.id].count)))
                ELSE FALSE]

\* GameRuntime._update_element_statuses: one element's new flags
ElementStatusOf(st, edef) ==
    LET available == IF ~st.elements[edef.id].unlocked
                     THEN (IF edef.requirements # <<>>
                           THEN EvaluateAll(edef.requirements, st) ELSE TRUE)
                     ELSE TRUE
    IN  [st.elements[edef.id] EXCEPT
            !.available = available,
            !.affordable =
                IF available /\ (edef.max_count = None
                                 \/ st.elements[edef.id].count < edef.max_count[1])
                THEN Covers(st, _apply_cost_effects(st, edef.id,
                                    cost_scaling_compute(edef,
                                        st.elements[edef.id].count)))
                ELSE FALSE]

_update_element_statuses(st) ==
    [st EXCEPT !.elements =
        [e \in DOMAIN st.elements |-> ElementStatusOf(st, ById(definition.elements, e))]]

\* a milestone check without the "already reached" skip
RECURSIVE CheckMilestonesAgain(_, _)
CheckMilestonesAgain(st, i) ==
    IF i > Len(definition.milestones) THEN st
    ELSE
        LET mdef == definition.milestones[i]
        IN  IF mdef.trigger # None /\ Evaluate(mdef.trigger[1], st)
            THEN CheckMilestonesAgain(
                    [st EXCEPT !.milestones_reached =
                        Append(@, [id |-> mdef.id, time |-> st.time_elapsed])],
                    i + 1)
            ELSE CheckMilestonesAgain(st, i + 1)

\* GameRuntime._check_milestones, from the i-th milestone on
RECURSIVE CheckMilestonesFrom(_, _)
CheckMilestonesFrom(st, i) ==
    IF i > Len(definition.milestones) THEN st
    ELSE
        LET mdef == definition.milestones[i]
        IN  IF has_milestone(st, mdef.id)
            THEN CheckMilestonesFrom(st, i + 1)
            ELSE IF mdef.trigger # None /\ Evaluate(mdef.trigger[1], st)
            THEN CheckMilestonesFrom(
                    [st EXCEPT !.milestones_reached =
                        Append(@, [id |-> mdef.id, time |-> st.time_elapsed])],
                    i + 1)
            ELSE CheckMilestonesFrom(st, i + 1)

_check_milestones(st) == CheckMilestonesFrom(st, 1)

\* GameRuntime._apply_immediate_effect
_apply_immediate_effect(st, eff) ==
    IF eff.type = "GRANT"
    THEN IF eff.target \in DOMAIN st.currencies
         THEN Credit(st, eff.target, resolve(eff, st))
         ELSE st
    ELSE IF eff.type = "UNLOCK"
    THEN IF eff.target \in DOMAIN st.elements
         THEN SetElement(st, eff.target,
                  [st.elements[eff.target] EXCEPT !.unlocked = TRUE,
                                                  !.available = TRUE])
         ELSE st
    ELSE st

\* the loop "for eff in edef.effects: if eff.phase == IMMEDIATE: apply"
RECURSIVE ApplyImmediateEffects(_, _, _)
ApplyImmediateEffects(st, effs, i) ==
    IF i > Len(effs) THEN st
    ELSE IF effs[i].phase = "IMMEDIATE"
    THEN ApplyImmediateEffects(_apply_immediate_effect(st, effs[i]), effs, i + 1)
    ELSE ApplyImmediateEffects(st, effs, i + 1)

\* GameRuntime._process_auto_clicks, from the i-th owned effect on
RECURSIVE AutoClicksFrom(_, _, _, _)
AutoClicksFrom(st, effs, i, delta) ==
    IF i > Len(effs) THEN st
    ELSE IF effs[i].type # "AUTO_CLICK" \/ ~is_active(effs[i], st)
    THEN AutoClicksFrom(st, effs, i + 1, delta)
    ELSE IF get_click_target(effs[i].target) # None
    THEN AutoClicksFrom(
            Earn(st, effs[i].target,
                 RMul(get_click_target(effs[i].target)[1].base_value,
                      RMul(resolve(effs[i], st), delta))),
            effs, i + 1, delta)
    ELSE AutoClicksFrom(st, effs, i + 1, delta)

\* auto-clicks followed by the cap clamp on every currency
RECURSIVE EnforceCapsFrom(_, _)
EnforceCapsFrom(st, i) ==
    IF i > Len(definition.currencies) THEN st
    ELSE EnforceCapsFrom(EnforceCap(st, definition.currencies[i].id), i + 1)

_process_auto_clicks_clamped(st, delta) ==
    EnforceCapsFrom(AutoClicksFrom(st, OwnedEffects(st), 1, delta), 1)


_process_auto_clicks(st, delta) == AutoClicksFrom(st, OwnedEffects(st), 1, delta)

\* GameRuntime._resolve_reset_list
_resolve_reset_list(spec, kind) ==
    IF spec.kind = "all_non_persistent"
    THEN IF kind = "currency"
         THEN LET cs == SelectSeq(definition.currencies, LAMBDA c : ~c.persistent)
              IN  [i \in 1..Len(cs) |-> cs[i].id]
         ELSE LET es == SelectSeq(definition.elements,
                                  LAMBDA e : "persistent" \notin e.tags)
              IN  [i \in 1..Len(es) |-> es[i].id]
    ELSE spec.ids

----------------------------------------------------------------------------
(* GameRuntime public operations (runtime.py).  A runtime r is            *)
(* [state |-> GameState, dirty |-> BOOLEAN].                               *)

\* GameRuntime.__init__
GameRuntime(defn) ==
    [state |-> _update_element_statuses(GameState(defn)), dirty |-> TRUE]

\* tick: "Apply production", from the i-th currency on
RECURSIVE ApplyProductionFrom(_, _, _)
ApplyProductionFrom(st, i, delta) ==
    IF i > Len(definition.currencies) THEN st
    ELSE IF st.currencies[definition.currencies[i].id].current_rate # R(0)
    THEN ApplyProductionFrom(
            EnforceCap(
                Credit(st, definition.currencies[i].id,
                     RMul(st.currencies[definition.currencies[i].id].current_rate,
                          delta)),
                definition.currencies[i].id),
            i + 1, delta)
    ELSE ApplyProductionFrom(st, i + 1, delta)

\* a clock that moves by a whole second at least
AdvanceTimeWhole(st, delta) ==
    [st EXCEPT !.time_elapsed = RAdd(@, IF RLt(delta, R(1)) THEN R(1) ELSE delta)]


\* tick: "Advance time"
AdvanceTime(st, delta) == [st EXCEPT !.time_elapsed = RAdd(@, delta)]

\* a tick that checks the milestones before it advances the time and refreshes
\* the flags
tick_milestones_first(r, delta) ==
    [state |->
        _update_element_statuses(
            AdvanceTime(
                _check_milestones(
                    _process_auto_clicks(
                        ApplyProductionFrom(
                            IF r.dirty THEN _recompute_rates(r.state) ELSE r.state,
                            1, delta),
                        delta)),
                delta)),
     dirty |-> FALSE]


\* GameRuntime.tick (no subsystem is registered): recompute the rates if dirty,
\* apply production, process auto-clicks, advance time, update the element
\* statuses, check the milestones
tick(r, delta) ==
    [state |->
        _check_milestones(
            _update_element_statuses(
                AdvanceTime(
                    _process_auto_clicks(
                        ApplyProductionFrom(
                            IF r.dirty THEN _recompute_rates(r.state) ELSE r.state,
                            1, delta),
                        delta),
                    delta))),
     dirty |-> FALSE]

\* a deduction that charges one of the cost's currencies only
DeductOneCost(st, cost) ==
    IF cost = <<>> THEN st
    ELSE LET c == CHOOSE k \in DOMAIN cost : TRUE
         IN  SetCurrency(st, c,
                [st.currencies[c] EXCEPT !.current = RSub(@, cost[c])])

\* a deduction that takes the cost from the total earned as well
DeductFromEarned(st, cost) ==
    [st EXCEPT !.currencies =
        [c \in DOMAIN st.currencies |->
            IF c \in DOMAIN cost
            THEN [st.currencies[c] EXCEPT !.current = RSub(@, cost[c]),
                                          !.total_earned = RSub(@, cost[c])]
            ELSE st.currencies[c]]]

\* try_purchase: "Deduct costs"
DeductCosts(st, cost) ==
    [st EXCEPT !.currencies =
        [c \in DOMAIN st.currencies |->
            IF c \in DOMAIN cost
            THEN [st.currencies[c] EXCEPT !.current = RSub(@, cost[c])]
            ELSE st.currencies[c]]]

\* a payment that takes what it can from each currency before it finds one short
PayCostPartial(st, cost) ==
    IF Covers(st, cost)
    THEN [ok |-> TRUE, state |-> DeductCosts(st, cost)]
    ELSE [ok |-> FALSE,
          state |-> DeductCosts(st,
                        [c \in {k \in DOMAIN cost : RGe(currency_value(st, k), cost[k])}
                            |-> cost[c]])]

\* try_purchase: "Check affordability", then "Deduct costs": whether the cost was
\* paid, and the state the two loops leave behind
PayCost(st, cost) ==
    IF Covers(st, cost)
    THEN [ok |-> TRUE, state |-> DeductCosts(st, cost)]
    ELSE [ok |-> FALSE, state |-> st]

\* try_purchase from "Check affordability" on: paid is the outcome of the payment;
\* then "Increment count", "Apply immediate effects", _dirty = True and
\* _update_element_statuses (the modelled definitions carry no on_purchase)
CompletePurchase(r, edef, paid) ==
    IF ~paid.ok
    THEN [rt |-> [r EXCEPT !.state = paid.state], ok |-> FALSE]
    ELSE [rt |-> [state |-> _update_element_statuses(
                                ApplyImmediateEffects(
                                    AddCount(paid.state, edef.id, 1),
                                    edef.effects, 1)),
                  dirty |-> TRUE],
          ok |-> TRUE]

\* GameRuntime.try_purchase: [rt |-> the runtime after the call, ok |-> its result]
try_purchase(r, element_id) ==
    LET st == r.state
        Fail == [rt |-> r, ok |-> FALSE]
    IN  IF get_element(element_id) = None THEN Fail
        ELSE
        LET edef == get_element(element_id)[1]
            es == st.elements[element_id]
        IN  IF edef.max_count # None /\ es.count >= edef.max_count[1] THEN Fail
            ELSE IF ~es.available /\ ~es.unlocked THEN Fail
            ELSE IF ~EvaluateAll(edef.purchase_requirements, st) THEN Fail
            ELSE CompletePurchase(r, edef,
                    PayCost(st, _apply_cost_effects(st, element_id,
                                    cost_scaling_compute(edef, es.count))))

\* process_click: "Collect click effects" and compute_click_value
click_value(st, target_currency) ==
    compute_click_value(
        get_click_target(target_currency)[1].base_value,
        TypedValues(ActiveOn(st, {"CLICK_FLAT", "CLICK_MULT"}, target_currency), st))

\* GameRuntime.process_click: [rt |-> the runtime after, value |-> the amount returned]
process_click(r, target_currency) ==
    IF get_click_target(target_currency) = None
    THEN [rt |-> r, value |-> R(0)]
    ELSE [rt |-> [state |-> EnforceCap(
                                Earn(r.state, target_currency,
                                     click_value(r.state, target_currency)),
                                target_currency),
                  dirty |-> r.dirty],
          value |-> click_value(r.state, target_currency)]

\* PrestigeResult
PrestigeResult(success, reward_amount, currencies_reset, elements_reset, reason) ==
    [success |-> success, reward_amount |-> reward_amount,
     currencies_reset |-> currencies_reset, elements_reset |-> elements_reset,
     reason |-> reason]

\* layer.reward_formula(self.state)
reward_formula(layer, st) ==
    LET f == layer.reward_formula[1]
    IN  IF f.kind = "const" THEN f.v
        ELSE RMul(total_earned(st, f.currency_id), f.factor)

\* a reset that empties the listed currencies instead of restoring their initial value
ResetCurrenciesToZero(st, ids, i) ==
    [st EXCEPT !.currencies =
        [c \in DOMAIN st.currencies |->
            IF c \in Range(ids) THEN CurrencyState(R(0), R(0), R(0))
            ELSE st.currencies[c]]]

\* trigger_prestige: "Reset currencies", from the i-th id of the list on
RECURSIVE ResetCurrenciesFrom(_, _, _)
ResetCurrenciesFrom(st, ids, i) ==
    IF i > Len(ids) THEN st
    ELSE IF ids[i] \in DOMAIN st.currencies
    THEN LET cdef == get_currency(ids[i])
             init == IF cdef # None THEN cdef[1].initial_value ELSE R(0)
         IN  ResetCurrenciesFrom(
                SetCurrency(st, ids[i], CurrencyState(init, init, R(0))),
                ids, i + 1)
    ELSE ResetCurrenciesFrom(st, ids, i + 1)

\* trigger_prestige: "Reset elements", from the i-th id of the list on
RECURSIVE ResetElementsFrom(_, _, _)
ResetElementsFrom(st, ids, i) ==
    IF i > Len(ids) THEN st
    ELSE IF ids[i] \in DOMAIN st.elements
            /\ get_element(ids[i]) # None
            /\ "persistent" \notin get_element(ids[i])[1].tags
    THEN ResetElementsFrom(
            SetElement(st, ids[i],
                [st.elements[ids[i]] EXCEPT !.count = 0, !.available = FALSE,
                                            !.affordable = FALSE]),
            ids, i + 1)
    ELSE ResetElementsFrom(st, ids, i + 1)

\* trigger_prestige: "Increment counters"
IncrementCounters(st, layer_id) ==
    [st EXCEPT
        !.prestige_counts =
            [l \in DOMAIN st.prestige_counts |->
                IF l = layer_id THEN st.prestige_counts[l] + 1
                ELSE st.prestige_counts[l]],
        !.run_number = @ + 1]

\* a rejection that leaves the reward at the PrestigeResult default
RejectedBelowMinimumNoReward(r, reward) ==
    [rt |-> r,
     result |-> PrestigeResult(FALSE, R(0), <<>>, <<>>, "Reward below minimum")]

\* trigger_prestige: the return for a reward below the minimum.  The reason is the
\* formatted text "Reward x below minimum y"; the model keeps its fixed words.
RejectedBelowMinimum(r, reward) ==
    [rt |-> r,
     result |-> PrestigeResult(FALSE, reward, <<>>, <<>>, "Reward below minimum")]

\* trigger_prestige: the other failing returns (reward_amount at its default 0.0)
Rejected(r, reason) ==
    [rt |-> r, result |-> PrestigeResult(FALSE, R(0), <<>>, <<>>, reason)]

\* GameRuntime.trigger_prestige: [rt |-> the runtime after, result |-> PrestigeResult].
\* On success: reset the currencies, reset the elements, grant the prestige
\* currency, increment the counters, _dirty = True, _update_element_statuses.
trigger_prestige(r, layer_id) ==
    LET st == r.state
    IN  IF get_prestige_layer(layer_id) = None
        THEN Rejected(r, "Unknown prestige layer")
        ELSE
        LET layer == get_prestige_layer(layer_id)[1]
        IN  IF ~EvaluateAll(layer.requirements, st)
            THEN Rejected(r, "Requirements not met")
            ELSE IF layer.reward_formula = None
            THEN Rejected(r, "No reward formula")
            ELSE IF RLt(reward_formula(layer, st), layer.minimum_reward)
            THEN RejectedBelowMinimum(r, reward_formula(layer, st))
            ELSE
            [rt |->
                [state |->
                    _update_element_statuses(
                        IncrementCounters(
                            Earn(ResetElementsFrom(
                                    ResetCurrenciesFrom(st,
                                        _resolve_reset_list(layer.currencies_reset,
                                                            "currency"), 1),
                                    _resolve_reset_list(layer.elements_reset,
                                                        "element"), 1),
                                 layer.prestige_currency,
                                 reward_formula(layer, st)),
                            layer_id)),
                 dirty |-> TRUE],
             result |->
                PrestigeResult(TRUE, reward_formula(layer, st),
                    _resolve_reset_list(layer.currencies_reset, "currency"),
                    _resolve_reset_list(layer.elements_reset, "element"), "")]

\* GameRuntime.get_available_purchases: ElementStatus snapshots, definition order
get_available_purchases(r) ==
    LET st == r.state
        shown == SelectSeq(definition.elements,
                    LAMBDA edef :
                        /\ (st.elements[edef.id].available \/ st.elements[edef.id].unlocked)
                        /\ ~(edef.max_count # None
                             /\ st.elements[edef.id].count >= edef.max_count[1]))
    IN  [i \in 1..Len(shown) |->
            [id |-> shown[i].id,
             count |-> st.elements[shown[i].id].count,
             available |-> TRUE,
             affordable |-> st.elements[shown[i].id].affordable,
             current_cost |-> compute_current_cost(st, shown[i].id),
             max_count |-> shown[i].max_count]]

\* GameRuntime.get_affordable_purchases
get_affordable_purchases(r) ==
    SelectSeq(get_available_purchases(r), LAMBDA e : e.affordable)

\* the loop over cost.items() of compute_time_to_afford and of
\* Simulation._compute_time_to_afford_with_clicks, which differ in the rate they
\* count for a currency (rate maps a currency to it): None, or Some(max_time)
TimeToCover(st, cost, rate) ==
    IF cost = <<>> THEN None
    ELSE
        LET short == {c \in DOMAIN cost : ~RGe(currency_value(st, c), cost[c])}
            T(c) == RDiv(RSub(cost[c], currency_value(st, c)), rate[c])
        IN  IF \E c \in short : RLe(rate[c], R(0)) THEN None
            ELSE IF short = {} THEN Some(R(0))
            ELSE Some(CHOOSE t \in {T(c) : c \in short} :
                        \A c \in short : RGe(t, T(c)))

\* state.currency_rate(cur_id) for the currencies of a cost
ProductionRates(st, cost) == [c \in DOMAIN cost |-> currency_rate(st, c)]

\* a time-to-afford that answers "now" where the cost can never be covered
compute_time_to_afford_or_now(r, element_id) ==
    IF TimeToCover(r.state, compute_current_cost(r.state, element_id),
                   ProductionRates(r.state,
                        compute_current_cost(r.state, element_id))) = None
    THEN Some(R(0))
    ELSE TimeToCover(r.state, compute_current_cost(r.state, element_id),
                     ProductionRates(r.state,
                        compute_current_cost(r.state, element_id)))

\* GameRuntime.compute_time_to_afford: None, or Some(seconds)
compute_time_to_afford(r, element_id) ==
    TimeToCover(r.state, compute_current_cost(r.state, element_id),
                ProductionRates(r.state, compute_current_cost(r.state, element_id)))

----------------------------------------------------------------------------
(* GreedyROI (strategy.py), with a runtime attached                        *)

RECURSIVE RSumOver(_, _)
RSumOver(f, S) ==
    IF S = {} THEN R(0)
    ELSE LET x == CHOOSE x \in S : TRUE IN RAdd(f[x], RSumOver(f, S \ {x}))

\* sum(state.currency_rate(cdef.id) for cdef in definition.currencies)
TotalRate(st) ==
    RSumOver([c \in DOMAIN st.currencies |-> st.currencies[c].current_rate],
             DOMAIN st.currencies)

\* a score: float("inf") or a number
ScoreInf == [inf |-> TRUE, v |-> R(0)]
Score(v) == [inf |-> FALSE, v |-> v]
ScoreGe(a, b) == a.inf \/ (~b.inf /\ RGe(a.v, b.v))

\* [eid for eid, _ in scored], [e.id for e in sorted_elements]
Ids(s) == [i \in 1..Len(s) |-> s[i].id]

\* "Undo: restore currencies", then "Restore rates"
Refund(st, cost, old_rates) ==
    [st EXCEPT !.currencies =
        [c \in DOMAIN st.currencies |->
            [st.currencies[c] EXCEPT
                !.current = IF c \in DOMAIN cost THEN RAdd(@, cost[c]) ELSE @,
                !.current_rate = old_rates[c]]]]

\* "Undo: restore currencies, decrement count": the count is decremented first and
\* the cost recomputed at that count, then "Restore rates"
\* an undo that takes two from the count
UndoPurchaseTwice(st, element_id, old_rates) ==
    Refund(AddCount(st, element_id, -2),
           compute_current_cost(AddCount(st, element_id, -1), element_id),
           old_rates)

UndoPurchase(st, element_id, old_rates) ==
    Refund(AddCount(st, element_id, -1),
           compute_current_cost(AddCount(st, element_id, -1), element_id),
           old_rates)

\* one pass of the loop "for elem in affordable" for an element of positive cost:
\* acc is [rt, scored], bought the outcome of runtime.try_purchase(elem.id)
ScoreCandidate(acc, elem, current_total_rate, bought) ==
    IF ~bought.ok THEN [acc EXCEPT !.rt = bought.rt]
    ELSE
        [rt |-> [state |->
                    UndoPurchase(_recompute_rates(bought.rt.state), elem.id,
                        [c \in DOMAIN acc.rt.state.currencies |->
                            acc.rt.state.currencies[c].current_rate]),
                 dirty |-> TRUE],
         scored |->
            Append(acc.scored,
                [id |-> elem.id,
                 roi |-> Score(RDiv(RSub(TotalRate(_recompute_rates(bought.rt.state)),
                                         current_total_rate),
                                    RSumOver(elem.current_cost,
                                             DOMAIN elem.current_cost)))])]

\* the loop "for elem in affordable" of GreedyROI.decide_purchases
RECURSIVE ScoreCandidatesFrom(_, _, _, _)
ScoreCandidatesFrom(acc, affordable, i, current_total_rate) ==
    IF i > Len(affordable) THEN acc
    ELSE IF RLe(RSumOver(affordable[i].current_cost,
                         DOMAIN affordable[i].current_cost), R(0))
    THEN ScoreCandidatesFrom(
            [acc EXCEPT !.scored =
                Append(@, [id |-> affordable[i].id, roi |-> ScoreInf])],
            affordable, i + 1, current_total_rate)
    ELSE ScoreCandidatesFrom(
            ScoreCandidate(acc, affordable[i], current_total_rate,
                           try_purchase(acc.rt, affordable[i].id)),
            affordable, i + 1, current_total_rate)

\* scored.sort(key=lambda x: -x[1]): a stable sort, best score first
RECURSIVE SortScored(_)
SortScored(s) ==
    IF s = <<>> THEN <<>>
    ELSE LET x == s[Len(s)]
             rest == SortScored(SubSeq(s, 1, Len(s) - 1))
             before == SelectSeq(rest, LAMBDA y : ScoreGe(y.roi, x.roi))
             after == SelectSeq(rest, LAMBDA y : ~ScoreGe(y.roi, x.roi))
         IN  before \o <<x>> \o after

\* the sort and the return of GreedyROI.decide_purchases
Ranked(acc) == [rt |-> acc.rt, order |-> Ids(SortScored(acc.scored))]

\* GreedyROI.decide_purchases: [rt |-> the runtime after, order |-> the ids returned]
GreedyROI_decide_purchases(r, affordable) ==
    IF affordable = <<>>
    THEN [rt |-> r, order |-> <<>>]
    ELSE Ranked(ScoreCandidatesFrom([rt |-> r, scored |-> <<>>], affordable, 1,
                                    TotalRate(r.state)))

----------------------------------------------------------------------------
(* The runtime under arbitrary callers: any public operation, any         *)
(* argument, in any order.                                                 *)

MaxOps == 6

Deltas == {R(0), R(1)}

NoSim == [pc |-> "unused"]

\* a record of the call just made; n counts the calls made so far
Op(op, arg, result, n) == [op |-> op, arg |-> arg, result |-> result, n |-> n]

Init ==
    /\ definition \in {Games[g] : g \in RuntimeGames}
    /\ rt = GameRuntime(definition)
    /\ last = Op("init", "", TRUE, 0)
    /\ strat = NoSim
    /\ simT = NoSim
    /\ simJ = NoSim

\* the same calls on a runtime of the PipelineGame
InitPipe ==
    /\ definition = PipelineGame
    /\ rt = GameRuntime(definition)
    /\ last = Op("init", "", TRUE, 0)
    /\ strat = NoSim
    /\ simT = NoSim
    /\ simJ = NoSim

Tick(delta) ==
    /\ last.n < MaxOps
    /\ rt' = tick(rt, delta)
    /\ last' = Op("tick", delta, TRUE, last.n + 1)
    /\ UNCHANGED <<definition, strat, simT, simJ>>

TryPurchase(e) ==
    /\ last.n < MaxOps
    /\ \E res \in {try_purchase(rt, e)} :
        /\ rt' = res.rt
        /\ last' = Op("try_purchase", e, res.ok, last.n + 1)
    /\ UNCHANGED <<definition, strat, simT, simJ>>

ProcessClick(c) ==
    /\ last.n < MaxOps
    /\ \E res \in {process_click(rt, c)} :
        /\ rt' = res.rt
        /\ last' = Op("process_click", c, res.value, last.n + 1)
    /\ UNCHANGED <<definition, strat, simT, simJ>>

TriggerPrestige(l) ==
    /\ last.n < MaxOps
    /\ \E res \in {trigger_prestige(rt, l)} :
        /\ rt' = res.rt
        /\ last' = Op("trigger_prestige", l, res.result, last.n + 1)
    /\ UNCHANGED <<definition, strat, simT, simJ>>

\* a GreedyROI strategy attached to the runtime is asked to rank the affordable
\* elements, as the Simulation loops do
DecidePurchases ==
    /\ last.n < MaxOps
    /\ \E affordable \in {get_affordable_purchases(rt)} :
       \E res \in {GreedyROI_decide_purchases(rt, affordable)} :
        /\ rt' = res.rt
        /\ last' = Op("decide_purchases", affordable, res.order, last.n + 1)
    /\ UNCHANGED <<definition, strat, simT, simJ>>

ElementArgs == SeqIds(definition.elements) \cup {"unknown"}
CurrencyArgs == SeqIds(definition.currencies) \cup {"unknown"}
LayerArgs == SeqIds(definition.prestige_layers) \cup {"unknown"}

Next ==
    \/ \E delta \in Deltas : Tick(delta)
    \/ \E e \in ElementArgs : TryPurchase(e)
    \/ \E c \in CurrencyArgs : ProcessClick(c)
    \/ \E l \in LayerArgs : TriggerPrestige(l)
    \/ DecidePurchases

Spec == Init /\ [][Next]_vars

SpecPipe == InitPipe /\ [][Next]_vars

\* the same calls on a runtime of the ClickGame
InitClick ==
    /\ definition = ClickGame
    /\ rt = GameRuntime(definition)
    /\ last = Op("init", "", TRUE, 0)
    /\ strat = NoSim
    /\ simT = NoSim
    /\ simJ = NoSim

SpecClick == InitClick /\ [][Next]_vars

----------------------------------------------------------------------------
(* Properties of the runtime operations.  In an action formula rt is the  *)
(* runtime before the call and rt' the runtime after it; last' names the  *)
(* call and its result.                                                    *)

Purchased(e) == last'.op = "try_purchase" /\ last'.arg = e
Prestiged(l) == last'.op = "trigger_prestige" /\ last'.arg = l

\* the part of the game state the purchase and prestige contracts speak of
Ledger(st) ==
    [currencies |-> st.currencies, elements |-> st.elements,
     milestones_reached |-> st.milestones_reached,
     prestige_counts |-> st.prestige_counts, run_number |-> st.run_number]

\* C1: a try_purchase call that returns false (unknown element, max count reached,
\* not available and not unlocked, a purchase requirement unmet, or a cost
\* currency short) leaves every currency's balance, total earned and rate, every
\* element's count and flags, the milestones reached, the prestige counters and
\* the run number as they were.
C1_FailedPurchaseChangesNothing ==
    [][\A e \in ElementArgs :
          (Purchased(e) /\ last'.result = FALSE) => Ledger(rt'.state) = Ledger(rt.state)
      ]_vars

\* a purchase of the forge has just failed with the gems covered and the gold
\* short: a two-currency cost of which only one currency is short
C1_Witness ==
    /\ last.op = "try_purchase" /\ last.arg = "forge" /\ last.result = FALSE
    /\ rt.state.elements["forge"].available
    /\ rt.state.elements["forge"].count = 0
    /\ EvaluateAll(ById(definition.elements, "forge").purchase_requirements, rt.state)
    /\ RGe(currency_value(rt.state, "gems"), compute_current_cost(rt.state, "forge")["gems"])
    /\ RLt(currency_value(rt.state, "gold"), compute_current_cost(rt.state, "forge")["gold"])

\* the GRANT effects of an element that target currency c, resolved in state st
GrantTotal(edef, c, st) ==
    RSum(Resolved(SelectSeq(edef.effects,
                    LAMBDA eff : eff.type = "GRANT" /\ eff.target = c), st))

GrantTargets(edef) ==
    {edef.effects[i].target :
        i \in {j \in 1..Len(edef.effects) : edef.effects[j].type = "GRANT"}}

\* C2: a try_purchase(e) that returns true takes from each cost currency the
\* amount compute_current_cost(e) gave before the call (a currency that e's own
\* GRANT effects also target then receives those grants), raises e's count by
\* one, and changes no other element's count and no currency outside the cost
\* and e's GRANT targets.
C2_PurchaseDeductsExactCost ==
    [][\A e \in SeqIds(definition.elements) :
          (Purchased(e) /\ last'.result = TRUE) =>
            LET cost == compute_current_cost(rt.state, e)
                edef == ById(definition.elements, e)
                old == rt.state
                new == rt'.state
            IN  /\ \A c \in DOMAIN cost :
                      new.currencies[c].current =
                          RAdd(RSub(old.currencies[c].current, cost[c]),
                               GrantTotal(edef, c, new))
                /\ \A c \in DOMAIN cost \ GrantTargets(edef) :
                      new.currencies[c].total_earned = old.currencies[c].total_earned
                /\ new.elements[e].count = old.elements[e].count + 1
                /\ \A x \in DOMAIN old.elements \ {e} :
                      new.elements[x].count = old.elements[x].count
                /\ \A c \in DOMAIN old.currencies \ (DOMAIN cost \cup GrantTargets(edef)) :
                      /\ new.currencies[c].current = old.currencies[c].current
                      /\ new.currencies[c].total_earned = old.currencies[c].total_earned
      ]_vars

\* a miner has just been bought while the forge's COST_MULT was active
C2_Witness ==
    /\ last.op = "try_purchase" /\ last.arg = "miner" /\ last.result = TRUE
    /\ rt.state.elements["forge"].count = 1
    /\ rt.state.elements["miner"].count >= 2

\* what C3 takes try_purchase to decide on: the element is known and below its max
\* count, its availability requirements hold or it is sticky-unlocked, its
\* purchase requirements hold and every cost currency covers the current cost
Purchasable(st, e) ==
    /\ get_element(e) # None
    /\ LET edef == get_element(e)[1]
       IN  /\ (edef.max_count = None \/ st.elements[e].count < edef.max_count[1])
           /\ (EvaluateAll(edef.requirements, st) \/ st.elements[e].unlocked)
           /\ EvaluateAll(edef.purchase_requirements, st)
           /\ Covers(st, compute_current_cost(st, e))

\* C3: try_purchase(e) returns true exactly when, in the state at the moment of the
\* call, e is known and below its max count, e's availability requirements hold
\* or e is unlocked, e's purchase requirements hold, and the balances cover e's
\* current cost, whatever operations ran since the last tick.
C3_PurchaseDecidedOnCurrentState ==
    [][\A e \in ElementArgs :
          Purchased(e) => (last'.result = Purchasable(rt.state, e))
      ]_vars

\* the case of a failing trigger_prestige in which the reward is below the minimum
BelowMinimum(st, l) ==
    /\ get_prestige_layer(l) # None
    /\ LET layer == get_prestige_layer(l)[1]
       IN  /\ EvaluateAll(layer.requirements, st)
           /\ layer.reward_formula # None
           /\ RLt(reward_formula(layer, st), layer.minimum_reward)

\* C4: a trigger_prestige that fails changes no currency, element, prestige counter
\* nor the run number; its result has success = false and a non-empty reason, and
\* when the reward was below the layer's minimum the result carries that reward.
C4_FailedPrestigeChangesNothing ==
    [][\A l \in LayerArgs :
          (Prestiged(l) /\ ~last'.result.success) =>
            /\ Ledger(rt'.state) = Ledger(rt.state)
            /\ last'.result.reason # ""
            /\ BelowMinimum(rt.state, l) =>
                  last'.result.reward_amount =
                      reward_formula(get_prestige_layer(l)[1], rt.state)
      ]_vars

\* the ascend layer has just been refused for a reward of 3/4 against a minimum of 1
C4_Witness ==
    /\ last.op = "trigger_prestige" /\ last.arg = "ascend"
    /\ ~last.result.success
    /\ BelowMinimum(rt.state, "ascend")
    /\ last.result.reward_amount = Rat(3, 4)

\* the ids a layer's reset list stands for
ResetIds(spec, defs, Persistent(_)) ==
    IF spec.kind = "all_non_persistent"
    THEN {defs[i].id : i \in {j \in 1..Len(defs) : ~Persistent(defs[j])}}
    ELSE Range(spec.ids)

CurrencyPersistent(cdef) == cdef.persistent
ElementPersistent(edef) == "persistent" \in edef.tags

\* C5: a successful trigger_prestige(l) sets balance and total earned of every reset
\* currency to its initial value and its rate to 0, sets the count of every reset
\* element that is not tagged persistent to 0, then adds the reward to the prestige
\* currency's balance and total earned, and raises l's counter and the run number
\* by one each.
C5_PrestigeResetsToInitial ==
    [][\A l \in SeqIds(definition.prestige_layers) :
          (Prestiged(l) /\ last'.result.success) =>
            LET layer == ById(definition.prestige_layers, l)
                old == rt.state
                new == rt'.state
                reward == reward_formula(layer, old)
                creset == ResetIds(layer.currencies_reset, definition.currencies,
                                   CurrencyPersistent)
                ereset == ResetIds(layer.elements_reset, definition.elements,
                                   ElementPersistent)
                Gain(c) == IF c = layer.prestige_currency THEN reward ELSE R(0)
            IN  /\ \A c \in creset :
                      LET init == ById(definition.currencies, c).initial_value
                      IN  /\ new.currencies[c].current = RAdd(init, Gain(c))
                          /\ new.currencies[c].total_earned = RAdd(init, Gain(c))
                          /\ new.currencies[c].current_rate = R(0)
                /\ \A e \in ereset :
                      ~ElementPersistent(ById(definition.elements, e)) =>
                          new.elements[e].count = 0
                /\ LET pc == layer.prestige_currency
                   IN  pc \notin creset =>
                          /\ new.currencies[pc].current =
                                RAdd(old.currencies[pc].current, reward)
                          /\ new.currencies[pc].total_earned =
                                RAdd(old.currencies[pc].total_earned, reward)
                /\ new.prestige_counts[l] = old.prestige_counts[l] + 1
                /\ new.run_number = old.run_number + 1
      ]_vars

\* the ascend layer has just succeeded with a miner owned: gold is back at its
\* initial 3 and the reset prestige currency holds its initial 1 plus the reward
C5_Witness ==
    /\ last.op = "trigger_prestige" /\ last.arg = "ascend" /\ last.result.success
    /\ rt.state.prestige_counts["ascend"] = 1
    /\ rt.state.currencies["gold"].current = R(3)
    /\ RGt(rt.state.currencies["gems"].current, R(1))
    /\ rt.state.elements["miner"].count = 0
    /\ \E i \in 1..Len(rt.state.milestones_reached) :
          rt.state.milestones_reached[i].id = "first_miner"

\* C6: no successful trigger_prestige changes the balance or total earned of a
\* persistent currency (but for the reward added to the prestige currency) nor the
\* count of an element tagged persistent, for explicit reset lists and for the
\* sentinel alike.
C6_PrestigeKeepsPersistent ==
    [][\A l \in SeqIds(definition.prestige_layers) :
          (Prestiged(l) /\ last'.result.success) =>
            LET layer == ById(definition.prestige_layers, l)
                old == rt.state
                new == rt'.state
                reward == reward_formula(layer, old)
                Gain(c) == IF c = layer.prestige_currency THEN reward ELSE R(0)
            IN  /\ \A c \in DOMAIN old.currencies :
                      CurrencyPersistent(ById(definition.currencies, c)) =>
                          /\ new.currencies[c].current =
                                RAdd(old.currencies[c].current, Gain(c))
                          /\ new.currencies[c].total_earned =
                                RAdd(old.currencies[c].total_earned, Gain(c))
                /\ \A e \in DOMAIN old.elements :
                      ElementPersistent(ById(definition.elements, e)) =>
                          new.elements[e].count = old.elements[e].count
      ]_vars

\* C7: GreedyROI.decide_purchases leaves every currency's balance, total earned and
\* rate and every element's count and available, affordable and unlocked flags as
\* it found them.
C7_DecidePurchasesRestoresState ==
    [][last'.op = "decide_purchases" =>
          /\ rt'.state.currencies = rt.state.currencies
          /\ rt'.state.elements = rt.state.elements
      ]_vars

----------------------------------------------------------------------------
(* Simulation (simulation.py): the same definition and strategy run once   *)
(* in tick mode (simT) and once in event-jump mode (simJ).  The strategy   *)
(* is a GreedyCheapest, the terminal condition one of Terminals.           *)
(* No modelled requirement is an EstimatedTimeRequirement, so the seed     *)
(* reaches nothing; balances are exact rationals, so the NaN/Inf abort     *)
(* never applies.                                                          *)

MAX_TICKS == 10000000

SimSeconds == 8

\* Simulation.tick_resolution, at its default 1.0
tick_resolution == R(1)

\* ClickProfile: targets in dict order, active_until None
ClickProfile(targets, active_during_wait) ==
    [targets |-> targets, active_during_wait |-> active_during_wait]

\* GreedyCheapest(click_profile, prestige_mode), cost_weights empty
GreedyCheapest(click_profile, prestige_mode) ==
    [click_profile |-> click_profile, prestige_mode |-> prestige_mode]

ClickProfiles ==
    {None} \cup
    {Some(ClickProfile(<<[currency |-> "gold", cps |-> R(1)]>>, w)) : w \in BOOLEAN}

Strategies ==
    {GreedyCheapest(cp, pm) : cp \in ClickProfiles,
                              pm \in {"never", "first_opportunity"}}

\* ClickProfile.get_clicks: the targets with a positive int(cps * duration)
ClickProfile_get_clicks(cp, duration, is_waiting) ==
    IF is_waiting /\ ~cp.active_during_wait THEN <<>>
    ELSE
        LET all == [i \in 1..Len(cp.targets) |->
                        [currency |-> cp.targets[i].currency,
                         count |-> RInt(RMul(cp.targets[i].cps, duration))]]
        IN  SelectSeq(all, LAMBDA x : x.count > 0)

\* GreedyCheapest.get_clicks
get_clicks(s, duration, is_waiting) ==
    IF s.click_profile # None
    THEN ClickProfile_get_clicks(s.click_profile[1], duration, is_waiting)
    ELSE <<>>

\* GreedyCheapest.should_prestige and GreedyROI.should_prestige; a strategy class
\* without a prestige_mode keeps Strategy.should_prestige, which returns False
should_prestige(s, layer_id) ==
    "prestige_mode" \in DOMAIN s /\ s.prestige_mode = "first_opportunity"

\* GreedyCheapest._weighted_cost, every weight 1.0
_weighted_cost(cost) == RSumOver(cost, DOMAIN cost)

\* sorted(affordable, key=_weighted_cost): a stable sort, cheapest first
RECURSIVE SortByCost(_)
SortByCost(s) ==
    IF s = <<>> THEN <<>>
    ELSE LET x == s[Len(s)]
             rest == SortByCost(SubSeq(s, 1, Len(s) - 1))
             Le(y) == RLe(_weighted_cost(y.current_cost), _weighted_cost(x.current_cost))
             before == SelectSeq(rest, Le)
             after == SelectSeq(rest, LAMBDA y : ~Le(y))
         IN  before \o <<x>> \o after

\* GreedyCheapest.decide_purchases
decide_purchases(s, affordable) ==
    Ids(SortByCost(affordable))

\* SimulationContext()
SimulationContext ==
    [last_purchase_time |-> R(0), stall_detected |-> FALSE, total_purchases |-> 0]

\* MetricsCollector: the event lists (the periodic snapshots are left out)
MetricsCollector ==
    [purchases |-> <<>>, milestones |-> <<>>, prestiges |-> <<>>,
     stalls |-> <<>>, waits |-> <<>>]

\* Terminal.time / Terminal.stall / Terminal.any
Terminal_time(seconds) == [kind |-> "time", seconds |-> seconds]
Terminal_stall(max_idle_seconds) ==
    [kind |-> "stall", max_idle_seconds |-> max_idle_seconds]
Terminal_any(conditions) == [kind |-> "any", conditions |-> conditions]

IdleSeconds == 3

\* the terminal conditions the runs are given: a time limit, alone or together
\* with the stall condition
Terminals ==
    {Terminal_time(R(SimSeconds)),
     Terminal_any(<<Terminal_time(R(SimSeconds)), Terminal_stall(R(IdleSeconds))>>)}

\* TerminalCondition.is_met(state, context) of _TimeTerminal, _StallTerminal and
\* _AnyTerminal (the Simulation always passes its context)
RECURSIVE TerminalMet(_, _, _)
TerminalMet(t, st, context) ==
    CASE t.kind = "time" -> RGe(st.time_elapsed, t.seconds)
      [] t.kind = "stall" ->
            \/ context.stall_detected
            \/ RGe(RSub(st.time_elapsed, context.last_purchase_time),
                   t.max_idle_seconds)
      [] t.kind = "any" ->
            \E i \in 1..Len(t.conditions) : TerminalMet(t.conditions[i], st, context)

\* the --seed of the runs
BaseSeed == 1

\* Simulation.__init__ and the locals of the run loop: milestones_seen, and the
\* tick_count / iterations counter; rng is random.Random(seed)
Simulation(mode, terminal, seed) ==
    [pc |-> IF mode = "event_jump" THEN "start" ELSE "run",
     mode |-> mode,
     terminal |-> terminal,
     rng |-> seed,
     runtime |-> GameRuntime(definition),
     collector |-> MetricsCollector,
     context |-> SimulationContext,
     milestones_seen |-> {},
     count |-> 0,
     outcome |-> ""]

\* self.terminal.is_met(state, self.context)
is_met(sim) == TerminalMet(sim.terminal, sim.runtime.state, sim.context)

\* "for _ in range(count): self.runtime.process_click(target)"
RECURSIVE ClickTimes(_, _, _)
ClickTimes(r, target, n) ==
    IF n = 0 THEN r ELSE ClickTimes(process_click(r, target).rt, target, n - 1)

\* _run_tick: "Process clicks", from the i-th target on
RECURSIVE ReplayClicksFrom(_, _, _)
ReplayClicksFrom(r, clicks, i) ==
    IF i > Len(clicks) THEN r
    ELSE ReplayClicksFrom(ClickTimes(r, clicks[i].currency, clicks[i].count),
                          clicks, i + 1)

\* a purchase that is recorded by the collector but left out of the context
BoughtUncounted(sim, element_id, cost, res) ==
    IF res.ok
    THEN [sim EXCEPT
            !.runtime = res.rt,
            !.collector.purchases =
                Append(@, [time |-> res.rt.state.time_elapsed,
                           element_id |-> element_id,
                           cost_paid |-> cost])]
    ELSE [sim EXCEPT !.runtime = res.rt]


\* one pass of the loop "for element_id in to_buy": cost is compute_current_cost
\* before the call, res the outcome of runtime.try_purchase(element_id); a
\* success is recorded (record_purchase) and counted in the context
Bought(sim, element_id, cost, res) ==
    IF res.ok
    THEN [sim EXCEPT
            !.runtime = res.rt,
            !.collector.purchases =
                Append(@, [time |-> res.rt.state.time_elapsed,
                           element_id |-> element_id,
                           cost_paid |-> cost]),
            !.context.last_purchase_time = res.rt.state.time_elapsed,
            !.context.total_purchases = @ + 1]
    ELSE [sim EXCEPT !.runtime = res.rt]

\* the loop "for element_id in to_buy" of both modes
RECURSIVE BuyFrom(_, _, _)
BuyFrom(sim, to_buy, i) ==
    IF i > Len(to_buy) THEN sim
    ELSE BuyFrom(
            Bought(sim, to_buy[i],
                   compute_current_cost(sim.runtime.state, to_buy[i]),
                   try_purchase(sim.runtime, to_buy[i])),
            to_buy, i + 1)

\* "affordable = get_affordable_purchases(); to_buy = decide_purchases(state,
\* affordable)", then the loop over to_buy
BuyDecided(sim, s) ==
    BuyFrom(sim, decide_purchases(s, get_affordable_purchases(sim.runtime)), 1)

\* one pass of the loop over the prestige layers when should_prestige holds: res is
\* the outcome of runtime.trigger_prestige(layer.id); a success is recorded
Triggered(sim, layer_id, res) ==
    IF res.result.success
    THEN [sim EXCEPT
            !.runtime = res.rt,
            !.collector.prestiges =
                Append(@, [time |-> res.rt.state.time_elapsed,
                           layer_id |-> layer_id,
                           reward_amount |-> res.result.reward_amount])]
    ELSE [sim EXCEPT !.runtime = res.rt]

\* _run_tick: "Evaluate prestige", from the i-th layer on
RECURSIVE PrestigeFrom(_, _, _)
PrestigeFrom(sim, s, i) ==
    IF i > Len(definition.prestige_layers) THEN sim
    ELSE IF should_prestige(s, definition.prestige_layers[i].id)
    THEN PrestigeFrom(
            Triggered(sim, definition.prestige_layers[i].id,
                      trigger_prestige(sim.runtime, definition.prestige_layers[i].id)),
            s, i + 1)
    ELSE PrestigeFrom(sim, s, i + 1)

\* "Check for new milestones", from the i-th entry of milestones_reached on
RECURSIVE RecordMilestonesFrom(_, _)
RecordMilestonesFrom(sim, i) ==
    IF i > Len(sim.runtime.state.milestones_reached) THEN sim
    ELSE
        LET mid == sim.runtime.state.milestones_reached[i].id
        IN  IF mid \notin sim.milestones_seen
            THEN RecordMilestonesFrom(
                    [sim EXCEPT
                        !.milestones_seen = @ \cup {mid},
                        !.collector.milestones =
                            Append(@, [time |-> sim.runtime.state.time_elapsed,
                                       milestone_id |-> mid])],
                    i + 1)
            ELSE RecordMilestonesFrom(sim, i + 1)

\* the outcome _run_tick reports after its loop
TickOutcomeByCount(sim) ==
    IF sim.count >= SimSeconds THEN "Terminal condition met" ELSE "Max ticks reached"

TickOutcome(sim) ==
    IF is_met(sim) THEN "Terminal condition met" ELSE "Max ticks reached"

\* one pass of the while loop of Simulation._run_tick: tick, "Process clicks",
\* "Evaluate purchases", "Evaluate prestige", "Check for new milestones"; the
\* tick_count is counted at the end of the pass
RunTickBody(sim, s) ==
    [RecordMilestonesFrom(
        PrestigeFrom(
            BuyDecided(
                [sim EXCEPT !.runtime =
                    ReplayClicksFrom(tick(sim.runtime, tick_resolution),
                                     get_clicks(s, tick_resolution, FALSE), 1)],
                s),
            s, 1),
        1)
     EXCEPT !.count = @ + 1]

\* Simulation._compute_click_income_rate: currency -> income per second
_compute_click_income_rate(s) ==
    LET clicks_per_sec == get_clicks(s, R(1), TRUE)
        paid == SelectSeq(clicks_per_sec,
                    LAMBDA x : get_click_target(x.currency) # None /\ x.count > 0)
    IN  [c \in {paid[i].currency : i \in 1..Len(paid)} |->
            LET x == CHOOSE y \in Range(paid) : y.currency = c
            IN  RMul(get_click_target(c)[1].base_value, R(x.count))]

\* state.currency_rate(cur_id) + click_income.get(cur_id, 0.0) for the currencies
\* of a cost
RatesWithClicks(st, cost, click_income) ==
    [c \in DOMAIN cost |->
        RAdd(currency_rate(st, c),
             IF c \in DOMAIN click_income THEN click_income[c] ELSE R(0))]

\* Simulation._compute_time_to_afford_with_clicks: None, or Some(seconds)
_compute_time_to_afford_with_clicks(r, element_id, click_income) ==
    TimeToCover(r.state, compute_current_cost(r.state, element_id),
                RatesWithClicks(r.state, compute_current_cost(r.state, element_id),
                                click_income))

\* _run_event_jump: "t = compute_time_to_afford(...); if t is None and
\* click_income: t = _compute_time_to_afford_with_clicks(...)"
JumpTime(r, element_id, click_income, t) ==
    IF t = None /\ DOMAIN click_income # {}
    THEN _compute_time_to_afford_with_clicks(r, element_id, click_income)
    ELSE t

\* _run_event_jump: the times dict over the available elements, in their order
TimesFor(r, available, click_income) ==
    SelectSeq([i \in 1..Len(available) |->
                  [id |-> available[i].id,
                   t |-> JumpTime(r, available[i].id, click_income,
                                  compute_time_to_afford(r, available[i].id))]],
              LAMBDA x : x.t # None /\ RGe(x.t[1], R(0)))

JumpTimes(r, s) ==
    TimesFor(r, get_available_purchases(r), _compute_click_income_rate(s))

\* min(times, key=lambda k: times[k]): the first of the smallest
MinTime(times) ==
    LET i == CHOOSE k \in 1..Len(times) :
                /\ \A j \in 1..Len(times) : RLe(times[k].t[1], times[j].t[1])
                /\ \A j \in 1..(k - 1) : ~RLe(times[j].t[1], times[k].t[1])
    IN  times[i]

\* _run_event_jump: "Apply clicks during wait", from the i-th target on
RECURSIVE ApplyWaitClicksFrom(_, _, _)
ApplyWaitClicksFrom(st, clicks, i) ==
    IF i > Len(clicks) THEN st
    ELSE IF get_click_target(clicks[i].currency) # None
    THEN ApplyWaitClicksFrom(
            Earn(st, clicks[i].currency,
                 RMul(get_click_target(clicks[i].currency)[1].base_value,
                      R(clicks[i].count))),
            clicks, i + 1)
    ELSE ApplyWaitClicksFrom(st, clicks, i + 1)

\* the outcome _run_event_jump reports after its loop
JumpOutcome(sim) ==
    IF is_met(sim) THEN "Terminal condition met"
    ELSE IF sim.context.stall_detected THEN "Stall detected"
    ELSE "Max iterations reached"

\* MetricsCollector.record_stall / record_wait at the runtime's time
record_stall(sim, duration) ==
    [sim EXCEPT !.collector.stalls =
        Append(@, [time |-> sim.runtime.state.time_elapsed, duration |-> duration])]

record_wait(sim, duration) ==
    [sim EXCEPT !.collector.waits =
        Append(@, [time |-> sim.runtime.state.time_elapsed, duration |-> duration])]

\* a jump of one tick resolution whatever the times found
jump_duration_resolution(times) == tick_resolution


\* "jump_duration = times[next_id]; if jump_duration <= 0: jump_duration =
\* self.tick_resolution"
jump_duration(times) ==
    IF RLe(MinTime(times).t[1], R(0)) THEN tick_resolution ELSE MinTime(times).t[1]

\* _run_event_jump: "Apply clicks during wait", tick(jump_duration), record_wait
Waited(sim, s, duration) ==
    record_wait(
        [sim EXCEPT !.runtime =
            tick([sim.runtime EXCEPT !.state =
                    ApplyWaitClicksFrom(sim.runtime.state,
                                        get_clicks(s, duration, TRUE), 1)],
                 duration)],
        duration)

\* _run_event_jump with nothing affordable: with no time to wait for, the stall is
\* recorded and the loop left (the outcome follows the loop); else the jump, then
\* "Check milestones"
WaitOrStall(sim, s, times) ==
    IF times = <<>>
    THEN LET stalled == [record_stall(sim, R(0)) EXCEPT
                            !.context.stall_detected = TRUE]
         IN  [stalled EXCEPT !.pc = "done", !.outcome = JumpOutcome(stalled)]
    ELSE RecordMilestonesFrom(Waited(sim, s, jump_duration(times)), 1)

\* one pass of the while loop of Simulation._run_event_jump (iterations is counted
\* first)
RunJumpBody(sim, s) ==
    IF get_affordable_purchases(sim.runtime) # <<>>
    THEN RecordMilestonesFrom(BuyDecided([sim EXCEPT !.count = @ + 1], s), 1)
    ELSE WaitOrStall([sim EXCEPT !.count = @ + 1], s, JumpTimes(sim.runtime, s))

\* Simulation._run_event_jump: "Initial tick to set up state"
InitialTick(sim) ==
    [sim EXCEPT
        !.pc = "run",
        !.runtime = [state |-> _update_element_statuses(tick(sim.runtime, R(0)).state),
                     dirty |-> FALSE]]

InitSim ==
    /\ definition \in {Games[g] : g \in SimGames}
    /\ strat \in Strategies
    /\ \E terminal \in Terminals :
        /\ simT = Simulation("tick", terminal, BaseSeed)
        /\ simJ = Simulation("event_jump", terminal, BaseSeed)
    /\ rt = GameRuntime(definition)
    /\ last = Op("init", "", TRUE, 0)

\* _run_tick: the loop test fails once the terminal condition is met or the tick
\* ceiling is passed
RunTickStep ==
    /\ simT.pc = "run"
    /\ ~is_met(simT)
    /\ simT.count + 1 <= MAX_TICKS
    /\ simT' = RunTickBody(simT, strat)
    /\ UNCHANGED <<definition, strat, simJ, rt, last>>

RunTickFinish ==
    /\ simT.pc = "run"
    /\ is_met(simT) \/ simT.count + 1 > MAX_TICKS
    /\ simT' = [simT EXCEPT !.pc = "done", !.outcome = TickOutcome(simT)]
    /\ UNCHANGED <<definition, strat, simJ, rt, last>>

RunJumpStart ==
    /\ simJ.pc = "start"
    /\ simJ' = InitialTick(simJ)
    /\ UNCHANGED <<definition, strat, simT, rt, last>>

RunJumpStep ==
    /\ simJ.pc = "run"
    /\ ~is_met(simJ)
    /\ simJ.count + 1 <= MAX_TICKS
    /\ simJ' = RunJumpBody(simJ, strat)
    /\ UNCHANGED <<definition, strat, simT, rt, last>>

RunJumpFinish ==
    /\ simJ.pc = "run"
    /\ is_met(simJ) \/ simJ.count + 1 > MAX_TICKS
    /\ simJ' = [simJ EXCEPT !.pc = "done", !.outcome = JumpOutcome(simJ)]
    /\ UNCHANGED <<definition, strat, simT, rt, last>>

RunTick == RunTickStep \/ RunTickFinish
RunEventJump == RunJumpStart \/ RunJumpStep \/ RunJumpFinish

NextSim ==
    \/ RunTickStep
    \/ RunTickFinish
    \/ RunJumpStart
    \/ RunJumpStep
    \/ RunJumpFinish

SpecSim == InitSim /\ [][NextSim]_vars

\* Simulation.run returns only when its loop has ended: a run that can take a
\* step takes it, which is weak fairness of RunTick and of RunEventJump.  For
\* the actions that leave the loop it is stated as such.  For the loops as a
\* whole it is stated with ENABLED written out: a loop has a step to take
\* exactly while its pc is not "done" (the guards of its step and finish
\* actions are complementary), every step changes the run's record, and
\* "done" is final.
FairSim ==
    /\ SpecSim
    /\ WF_vars(RunTickFinish)
    /\ WF_vars(RunJumpFinish)
    /\ []<>(simT.pc = "done") \/ []<><<TRUE>>_simT
    /\ []<>(simJ.pc = "done") \/ []<><<TRUE>>_simJ

----------------------------------------------------------------------------
(* Monte Carlo (cli.py, _run_monte_carlo): a batch of runs with the seeds  *)
(* base, base + 1, ... over one definition, strategy and terminal object.  *)
(* simT is the batch's current run; simJ is a run of its own, made with    *)
(* objects of its own, with one of the batch's seeds.  The definition      *)
(* variable holds the definition objects the current run was given, with   *)
(* the sampled time each EstimatedTimeRequirement keeps.                   *)

\* args.monte_carlo
MonteCarlo == 2

BatchSeeds == BaseSeed..(BaseSeed + MonteCarlo - 1)

\* random.Random(seed).gauss(0, 1), the first draw, to the nearest quarter
\* (1.288..., 2.338..., 0.094..., 0.040... for the seeds 1, 2, 3, 4)
gauss(seed) ==
    CASE seed = 1 -> <<5, 4>>
      [] seed = 2 -> <<9, 4>>
      [] seed = 3 -> <<0, 1>>
      [] seed = 4 -> <<0, 1>>

\* EstimatedTimeRequirement.sample with the injected generator
sample(req, rng) ==
    IF RGt(req.variance, R(0))
    THEN LET t == RAdd(req.mean, RMul(gauss(rng), req.variance))
         IN  IF RGe(t, R(0)) THEN t ELSE R(0)
    ELSE req.mean

\* EstimatedTimeRequirement.evaluate, its first two lines, through the composite
\* requirements: a requirement that holds a sampled time keeps it
RECURSIVE Sampled(_, _)
Sampled(req, rng) ==
    CASE req.kind = "estimated_time" ->
            IF req.sampled_time = None
            THEN [req EXCEPT !.sampled_time = Some(sample(req, rng))]
            ELSE req
      [] req.kind \in {"all", "any"} ->
            [req EXCEPT !.reqs = [k \in 1..Len(req.reqs) |-> Sampled(req.reqs[k], rng)]]
      [] OTHER -> req

\* Simulation._inject_rng, and the sampling the injected requirements do when they
\* are first evaluated.  The modelled requirements of this kind are milestone
\* triggers, first evaluated by the run's first tick, and the run's generator
\* has no other use, so each one's draw is the generator's first.
_inject_rng(defn, rng) ==
    [defn EXCEPT !.milestones =
        [k \in 1..Len(defn.milestones) |->
            IF defn.milestones[k].trigger = None THEN defn.milestones[k]
            ELSE [defn.milestones[k] EXCEPT
                    !.trigger = Some(Sampled(defn.milestones[k].trigger[1], rng))]]]

\* Simulation.run, a step at a time: the initial tick of the event-jump mode, a
\* pass of the mode's loop, or the loop's exit with the outcome
run(sim, s) ==
    IF sim.pc = "start" THEN InitialTick(sim)
    ELSE IF is_met(sim) \/ sim.count + 1 > MAX_TICKS
    THEN [sim EXCEPT !.pc = "done",
                     !.outcome = IF sim.mode = "event_jump" THEN JumpOutcome(sim)
                                 ELSE TickOutcome(sim)]
    ELSE IF sim.mode = "event_jump" THEN RunJumpBody(sim, s)
    ELSE RunTickBody(sim, s)

\* the run of its own: a definition just loaded, a Simulation made with one of
\* the batch's seeds
InitMC ==
    /\ strat \in Strategies
    /\ \E terminal \in Terminals, mode \in {"tick", "event_jump"}, seed \in BatchSeeds :
        /\ definition = _inject_rng(EstimateGame, seed)
        /\ simJ = Simulation(mode, terminal, seed)
    /\ simT = NoSim
    /\ rt = GameRuntime(definition)
    /\ last = Op("init", "", TRUE, 0)

RunAlone ==
    /\ simJ.pc # "done"
    /\ simJ' = run(simJ, strat)
    /\ UNCHANGED <<definition, strat, simT, rt, last>>

\* _run_monte_carlo, i = 0: the definition is loaded anew, and the first
\* Simulation of the batch is made with the base seed
BatchFirst ==
    /\ simJ.pc = "done"
    /\ simT = NoSim
    /\ definition' = _inject_rng(EstimateGame, BaseSeed)
    /\ simT' = Simulation(simJ.mode, simJ.terminal, BaseSeed)
    /\ UNCHANGED <<strat, simJ, rt, last>>

RunBatch ==
    /\ simT # NoSim
    /\ simT.pc # "done"
    /\ simT' = run(simT, strat)
    /\ UNCHANGED <<definition, strat, simJ, rt, last>>

\* _run_monte_carlo, the next i: a Simulation with the next seed over the same
\* definition, strategy and terminal
BatchNext ==
    /\ simT # NoSim
    /\ simT.pc = "done"
    /\ simT.rng + 1 \in BatchSeeds
    /\ definition' = _inject_rng(definition, simT.rng + 1)
    /\ simT' = Simulation(simT.mode, simT.terminal, simT.rng + 1)
    /\ UNCHANGED <<strat, simJ, rt, last>>

NextMC ==
    \/ RunAlone
    \/ BatchFirst
    \/ RunBatch
    \/ BatchNext

SpecMC == InitMC /\ [][NextMC]_vars

----------------------------------------------------------------------------
(* Properties of the simulation runs.  simT is the tick-mode run and simJ  *)
(* the event-jump run of the same definition and strategy.                 *)

\* no two entries of s carry the same key
NoRepeat(s, Key(_)) == \A i, j \in 1..Len(s) : Key(s[i]) = Key(s[j]) => i = j

IsPrefix(a, b) == Len(a) <= Len(b) /\ SubSeq(b, 1, Len(a)) = a

\* the ids a run has logged, in the order it logged them
LoggedIds(sim) ==
    [i \in 1..Len(sim.collector.milestones) |-> sim.collector.milestones[i].milestone_id]

\* one step of a run keeps every entry of the milestones-reached map, with its
\* time, and leaves no id twice in the map or in the milestone log
MilestonesKept(old, new) ==
    /\ IsPrefix(old.runtime.state.milestones_reached,
                new.runtime.state.milestones_reached)
    /\ NoRepeat(new.runtime.state.milestones_reached, LAMBDA m : m.id)
    /\ NoRepeat(new.collector.milestones, LAMBDA m : m.milestone_id)

\* C8: across the ticks, purchases, clicks and prestiges of a run, a milestone
\* enters the milestones-reached map at most once, its entry and recorded time
\* are kept by every later step (a prestige included), and the run's milestone
\* log holds each milestone id at most once even while its trigger stays true.
C8_MilestoneEnteredOnce ==
    [][MilestonesKept(simT, simT') /\ MilestonesKept(simJ, simJ')]_vars

\* a tick-mode run that logged a milestone at an earlier time, has prestiged
\* since, and still finds the milestone's trigger true
C8_Witness ==
    \E i \in 1..Len(simT.collector.milestones) :
        LET m == simT.collector.milestones[i]
            mdef == ById(definition.milestones, m.milestone_id)
        IN  /\ RLt(m.time, simT.runtime.state.time_elapsed)
            /\ mdef.trigger # None
            /\ Evaluate(mdef.trigger[1], simT.runtime.state)
            /\ has_milestone(simT.runtime.state, m.milestone_id)
            /\ \E k \in 1..Len(simT.collector.prestiges) :
                    RGt(simT.collector.prestiges[k].time, m.time)

\* C9: for the same definition and strategy configuration, the finished tick-mode
\* run and the finished event-jump run have logged the same milestones in the
\* same order.
C9_SameMilestonesSameOrder ==
    (simT.pc = "done" /\ simJ.pc = "done") => LoggedIds(simT) = LoggedIds(simJ)

\* the strategy earns nothing by clicking while the run waits
NoClickIncome == DOMAIN _compute_click_income_rate(strat) = {}

\* the elements below their max count
Remaining(st) ==
    {e \in DOMAIN st.elements :
        \/ ById(definition.elements, e).max_count = None
        \/ st.elements[e].count < ById(definition.elements, e).max_count[1]}

\* the elements with an effect that adds to currency c
Sources(c) ==
    {e \in SeqIds(definition.elements) :
        \E i \in 1..Len(ById(definition.elements, e).effects) :
            /\ ById(definition.elements, e).effects[i].target = c
            /\ ById(definition.elements, e).effects[i].type
                    \in {"PRODUCTION_FLAT", "GRANT", "AUTO_CLICK"}}

\* c has a cap that no effect raises
FixedCap(c) ==
    /\ get_currency(c) # None
    /\ get_currency(c)[1].cap # None
    /\ \A e \in SeqIds(definition.elements) :
         \A i \in 1..Len(ById(definition.elements, e).effects) :
            ~(/\ ById(definition.elements, e).effects[i].target = c
              /\ ById(definition.elements, e).effects[i].type
                    \in {"CAP_FLAT", "CAP_MULT"})

\* nothing owned earns c, and every element that would costs more c than is held
Stagnant(st, c) ==
    \A e \in Sources(c) :
        /\ st.elements[e].count = 0
        /\ c \in DOMAIN compute_current_cost(st, e)
        /\ RGt(compute_current_cost(st, e)[c], currency_value(st, c))

\* element e costs more of some currency than production can ever accumulate:
\* more than is held, and more than the currency's cap or with the currency
\* stagnant
OutOfReach(st, e) ==
    \E c \in DOMAIN compute_current_cost(st, e) :
        /\ RGt(compute_current_cost(st, e)[c], currency_value(st, c))
        /\ \/ FixedCap(c) /\ RGt(compute_current_cost(st, e)[c],
                                 get_currency(c)[1].cap[1])
           \/ Stagnant(st, c)

\* the case of the stall contract: no click income, and what remains to buy is
\* out of reach
StallCase(sim) ==
    /\ sim.pc # "unused"
    /\ NoClickIncome
    /\ Remaining(sim.runtime.state) # {}
    /\ \A e \in Remaining(sim.runtime.state) : OutOfReach(sim.runtime.state, e)

\* the run is over with a recorded stall and the stall flag, within the
\* iteration ceiling and short of the time limit; under the time terminal the
\* outcome is the stall outcome
StallEnd(sim) ==
    /\ sim.pc = "done"
    /\ sim.collector.stalls # <<>>
    /\ sim.context.stall_detected
    /\ sim.count <= MAX_TICKS
    /\ ~RGe(sim.runtime.state.time_elapsed, R(SimSeconds))
    /\ sim.terminal.kind = "time" =>
          sim.outcome = "Stall detected" /\ ~is_met(sim)

JumpFindsNothing ==
    /\ simJ.pc = "run"
    /\ ~is_met(simJ)
    /\ simJ.count + 1 <= MAX_TICKS
    /\ get_affordable_purchases(simJ.runtime) = <<>>
    /\ JumpTimes(simJ.runtime, strat) = <<>>

\* C11: whenever the event-jump loop finds no affordable element and no available
\* element with a finite time to afford, that pass records exactly one stall
\* event, sets the stall flag, ends the loop, and the report's outcome is
\* "Stall detected", whatever the terminal condition.
C11_StallReportedAsStall ==
    [][JumpFindsNothing =>
          /\ Len(simJ'.collector.stalls) = Len(simJ.collector.stalls) + 1
          /\ simJ'.context.stall_detected
          /\ simJ'.pc = "done"
          /\ simJ'.outcome = "Stall detected"
      ]_simJ

\* SimulationReport: the outcome, the total time, the purchase log and the
\* milestone times of a run
Report(sim) ==
    [outcome |-> sim.outcome,
     total_time |-> sim.runtime.state.time_elapsed,
     purchases |-> sim.collector.purchases,
     milestone_times |-> sim.collector.milestones]

\* C12: a finished run of a Monte Carlo batch, which shares the definition,
\* strategy and terminal objects with the batch's other runs, has the same
\* report as the finished run made on its own with the same seed, strategy
\* configuration, mode and definition.
C12_SameSeedSameReport ==
    (simT # NoSim /\ simT.pc = "done" /\ simJ.pc = "done" /\ simT.rng = simJ.rng)
        => Report(simT) = Report(simJ)

\* the tick-mode run at its exit: the outcome says whether the terminal condition
\* holds, the ticks taken are within the ceiling, and under a time terminal that
\* is met the elapsed time has reached its seconds
TickExit(sim) ==
    /\ sim.outcome \in {"Terminal condition met", "Max ticks reached"}
    /\ sim.outcome = "Terminal condition met" <=> is_met(sim)
    /\ sim.count <= MAX_TICKS
    /\ is_met(sim) \/ sim.count = MAX_TICKS
    /\ (sim.terminal.kind = "time" /\ is_met(sim)) =>
          RGe(sim.runtime.state.time_elapsed, sim.terminal.seconds)

Contributing(st, types, target) ==
    {<<e, k>> \in SeqIds(definition.elements) \X (1..8) :
        /\ k <= Len(ById(definition.elements, e).effects)
        /\ ById(definition.elements, e).effects[k].type \in types
        /\ ById(definition.elements, e).effects[k].target = target
        /\ st.elements[e].count > 0
        /\ is_active(ById(definition.elements, e).effects[k], st)}

\* the immediate effects of a type and target among effs whose activation
\* requirement holds before or after the purchase
ActiveImmediate(effs, type, target, old, new) ==
    SelectSeq(effs, LAMBDA eff : /\ eff.type = type
                                 /\ eff.target = target
                                 /\ is_active(eff, old) \/ is_active(eff, new))

\* a purchase of e has granted and unlocked by its active effects only
ImmediateByActiveOnly(e, old, new) ==
    LET edef == ById(definition.elements, e)
        cost == compute_current_cost(old, e)
        paid(c) == IF c \in DOMAIN cost THEN cost[c] ELSE R(0)
    IN  /\ \A c \in DOMAIN old.currencies :
              new.currencies[c].current =
                  RAdd(RSub(old.currencies[c].current, paid(c)),
                       RSum(Resolved(ActiveImmediate(edef.effects, "GRANT", c, old, new),
                                     new)))
        /\ \A x \in DOMAIN old.elements :
              ActiveImmediate(edef.effects, "UNLOCK", x, old, new) = <<>> =>
                  new.elements[x].unlocked = old.elements[x].unlocked

\* C14: an effect whose owner's count is 0 or whose activation requirement is
\* false contributes nothing: a tick leaves rate 0 on a currency with no
\* contributing production effect, an element with no contributing COST_MULT
\* costs what its scaling gives, and a purchase grants and unlocks by its active
\* GRANT and UNLOCK effects only.
C14_InactiveEffectContributesNothing ==
    [][/\ \A e \in SeqIds(definition.elements) :
            (Purchased(e) /\ last'.result = TRUE) =>
                ImmediateByActiveOnly(e, rt.state, rt'.state)
       /\ last'.op = "tick" =>
            \A c \in DOMAIN rt.state.currencies :
                Contributing(rt.state, {"PRODUCTION_FLAT"}, c) = {} =>
                    rt'.state.currencies[c].current_rate = R(0)
       /\ \A e \in SeqIds(definition.elements) :
            Contributing(rt'.state, {"COST_MULT"}, e) = {} =>
                compute_current_cost(rt'.state, e) =
                    cost_scaling_compute(ById(definition.elements, e),
                                         rt'.state.elements[e].count)
      ]_vars

\* the rate the pipeline gives currency c over the effects of the elements held
\* that are active in state st, with their values resolved in st
RateAt(st, c) == _recompute_rates(st).currencies[c].current_rate

\* C15: in every tick each currency accrues at the pipeline's rate over the
\* effects active in the state at the start of that tick, and that rate is the
\* one the tick leaves in the state, whether or not a purchase or prestige
\* came before it.
C15_TickUsesCurrentRates ==
    [][last'.op = "tick" =>
          \A c \in DOMAIN rt.state.currencies :
              /\ rt'.state.currencies[c].current_rate = RateAt(rt.state, c)
              /\ rt'.state.currencies[c].current =
                    RAdd(rt.state.currencies[c].current,
                         RMul(RateAt(rt.state, c), last'.arg))
      ]_vars

\* every effect of the definition with the element that owns it
EffectsWithOwner ==
    Flatten([i \in 1..Len(definition.elements) |->
                [k \in 1..Len(definition.elements[i].effects) |->
                    [owner |-> definition.elements[i].id,
                     eff |-> definition.elements[i].effects[k]]]])

\* the values in st of the effects of one type on the given targets, of elements
\* held, active in st, outside the COST and IMMEDIATE phases
LayerValues(st, type, targets) ==
    LET live == SelectSeq(EffectsWithOwner,
                    LAMBDA x : /\ x.eff.type = type
                               /\ x.eff.target \in targets
                               /\ x.eff.phase \notin {"COST", "IMMEDIATE"}
                               /\ st.elements[x.owner].count > 0
                               /\ is_active(x.eff, st))
    IN  [i \in 1..Len(live) |-> resolve(live[i].eff, st)]

AnyTarget == {EffectsWithOwner[i].eff.target : i \in 1..Len(EffectsWithOwner)}

\* flat_sum x (1 + add_pct_sum) x product(PRODUCTION_MULT) x product(GLOBAL_MULT)
LayeredRate(st, c) ==
    RMul(RMul(RMul(RSum(LayerValues(st, "PRODUCTION_FLAT", {c})),
                   RAdd(R(1), RSum(LayerValues(st, "PRODUCTION_ADD_PCT", {c})))),
              RProd(LayerValues(st, "PRODUCTION_MULT", {c}))),
         RProd(LayerValues(st, "GLOBAL_MULT", AnyTarget)))

\* the step is the first tick after a successful purchase or prestige
FirstTickAfterChange ==
    /\ last.op \in {"try_purchase", "trigger_prestige"}
    /\ IF last.op = "try_purchase" THEN last.result = TRUE ELSE last.result.success
    /\ last'.op = "tick"

\* C16: the first tick after a purchase or prestige leaves each currency the rate
\* flat_sum x (1 + add_pct_sum) x product(PRODUCTION_MULT) x product(GLOBAL_MULT)
\* over the active effects of the elements held that target the currency and
\* are outside the COST and IMMEDIATE phases, every active GLOBAL_MULT counted
\* for every currency; with no such effect the rate is 0.
C16_RateIsLayeredProduct ==
    [][FirstTickAfterChange =>
          \A c \in DOMAIN rt.state.currencies :
              /\ rt'.state.currencies[c].current_rate = LayeredRate(rt.state, c)
              /\ LayerValues(rt.state, "PRODUCTION_FLAT", {c}) = <<>> =>
                    rt'.state.currencies[c].current_rate = R(0)
      ]_vars

\* all four layers are at work on gold (2 x 1.5 x 3 x 2), and the GLOBAL_MULT
\* that targets gold has doubled the rate of ore
C16_Witness ==
    /\ last.op = "tick"
    /\ rt.state.currencies["gold"].current_rate = R(18)
    /\ rt.state.currencies["ore"].current_rate = R(2)

\* element e can be paid for in st: it is available, below its max count, and
\* the balances cover its current cost
PayableNow(st, e) ==
    /\ st.elements[e].available
    /\ \/ ById(definition.elements, e).max_count = None
       \/ st.elements[e].count < ById(definition.elements, e).max_count[1]
    /\ Covers(st, compute_current_cost(st, e))

\* C17: after every tick, try_purchase, process_click and trigger_prestige, each
\* element's affordable flag, and with it the element's place in
\* get_affordable_purchases, is true exactly when the element is available,
\* below its max count and its current cost is covered by the balances.
C17_AffordableFlagIsCurrent ==
    last.op \in {"tick", "try_purchase", "process_click", "trigger_prestige"} =>
        \A e \in SeqIds(definition.elements) :
            /\ rt.state.elements[e].affordable <=> PayableNow(rt.state, e)
            /\ (\E i \in 1..Len(get_affordable_purchases(rt)) :
                    get_affordable_purchases(rt)[i].id = e)
                  <=> PayableNow(rt.state, e)

\* C18: once an element's unlocked flag is set it is never cleared, and the
\* element is available after the step that set it and after every later tick,
\* purchase and prestige, a prestige that resets the element included, whether
\* or not its availability requirements hold.
C18_UnlockedStaysAvailable ==
    [][\A e \in SeqIds(definition.elements) :
          (rt.state.elements[e].unlocked \/ rt'.state.elements[e].unlocked) =>
              /\ rt'.state.elements[e].unlocked
              /\ rt'.state.elements[e].available
      ]_vars

\* a prestige with an element among its resets has just succeeded, and the
\* element, unlocked before, is still unlocked and available with its
\* requirements false
C18_Witness ==
    /\ last.op = "trigger_prestige"
    /\ last.result.success
    /\ \E k \in 1..Len(last.result.elements_reset) :
          LET e == last.result.elements_reset[k]
          IN  /\ rt.state.elements[e].unlocked
              /\ rt.state.elements[e].available
              /\ ~EvaluateAll(ById(definition.elements, e).requirements, rt.state)

\* C19: in every reachable state each element's count is at least 0 and, when
\* the element has a max count, at most that, whatever the order of ticks,
\* purchases, clicks, prestiges and GreedyROI's speculative purchases and undos.
C19_CountWithinBounds ==
    \A e \in SeqIds(definition.elements) :
        /\ rt.state.elements[e].count >= 0
        /\ ById(definition.elements, e).max_count # None =>
              rt.state.elements[e].count <= ById(definition.elements, e).max_count[1]

\* GreedyROI has just bought and undone the elements it ranked, in a state where
\* one element is at its max count and another is held
C19_Witness ==
    /\ last.op = "decide_purchases"
    /\ last.result # <<>>
    /\ \E e \in SeqIds(definition.elements) :
          /\ ById(definition.elements, e).max_count # None
          /\ rt.state.elements[e].count = ById(definition.elements, e).max_count[1]
    /\ \E e \in SeqIds(definition.elements) :
          /\ ById(definition.elements, e).max_count = None
          /\ rt.state.elements[e].count > 0

\* the total earned of no currency is lower in new than in old
NoneLower(old, new) ==
    \A c \in DOMAIN old.currencies :
        RGe(new.currencies[c].total_earned, old.currencies[c].total_earned)

\* where the total earned of a currency is lower in new than in old, layer l
\* resets the currency, and the new total is the currency's initial value, with
\* the reward on top for l's own prestige currency
LowerOnlyByReset(old, new, l, reward) ==
    LET layer == ById(definition.prestige_layers, l)
        creset == ResetIds(layer.currencies_reset, definition.currencies,
                           CurrencyPersistent)
    IN  \A c \in DOMAIN old.currencies :
            RLt(new.currencies[c].total_earned, old.currencies[c].total_earned) =>
                /\ c \in creset
                /\ new.currencies[c].total_earned =
                      RAdd(ById(definition.currencies, c).initial_value,
                           IF c = layer.prestige_currency THEN reward ELSE R(0))

\* a pass of a run's loop: the total earned goes down only in a pass that
\* recorded a prestige, by the reset of the last one recorded
RunKeepsEarned(old, new) ==
    (old.pc # "unused" /\ new # old) =>
        IF Len(new.collector.prestiges) > Len(old.collector.prestiges)
        THEN LET p == new.collector.prestiges[Len(new.collector.prestiges)]
             IN  LowerOnlyByReset(old.runtime.state, new.runtime.state,
                                  p.layer_id, p.reward_amount)
        ELSE NoneLower(old.runtime.state, new.runtime.state)

LowerToInitial(old, new, l) ==
    LET layer == ById(definition.prestige_layers, l)
        creset == ResetIds(layer.currencies_reset, definition.currencies,
                           CurrencyPersistent)
    IN  \A c \in DOMAIN old.currencies :
            RLt(new.currencies[c].total_earned, old.currencies[c].total_earned) =>
                /\ c \in creset
                /\ new.currencies[c].total_earned =
                      ById(definition.currencies, c).initial_value

----------------------------------------------------------------------------
(* Properties of clicks and auto-clicks, on the ClickGame (SpecClick)       *)

\* the owned AUTO_CLICK effects on one currency that are active in st
AutoClickEffects(st, c) == ActiveOn(st, {"AUTO_CLICK"}, c)

\* clicks_per_sec x delta x the click target's base value, summed over those effects
AutoClickTotal(st, c, delta) ==
    IF get_click_target(c) = None THEN R(0)
    ELSE RMul(RMul(RSum(Resolved(AutoClickEffects(st, c), st)), delta),
              get_click_target(c)[1].base_value)

\* the balance that production alone leaves: old + rate x delta, clamped to the
\* resolved cap, for a currency whose rate is not zero
AfterProduction(st, c, rate, delta) ==
    IF rate = R(0) THEN st.currencies[c].current
    ELSE ClampedTo(RAdd(st.currencies[c].current, RMul(rate, delta)),
                   _resolve_cap(st, c))

PositivePart(x) == IF RGt(x, R(0)) THEN x ELSE R(0)

ClickAmount(st, c) ==
    RMul(RAdd(get_click_target(c)[1].base_value,
              RSum(Resolved(ActiveOn(st, {"CLICK_FLAT"}, c), st))),
         RProd(Resolved(ActiveOn(st, {"CLICK_MULT"}, c), st)))

\* min(balance, resolved cap); the balance where there is no cap
MinWithCap(st, c, balance) ==
    IF _resolve_cap(st, c) = None THEN balance
    ELSE IF RLt(balance, _resolve_cap(st, c)[1]) THEN balance
    ELSE _resolve_cap(st, c)[1]

\* C22: process_click(c) returns 0 and changes nothing when c has no click
\* target; otherwise it returns (base + sum of active CLICK_FLAT) x product of
\* active CLICK_MULT, adds that to c's total-earned and leaves c's balance at
\* min(old balance + amount, resolved cap)
C22_ClickAddsPipelineValue ==
    [][last'.op = "process_click" =>
        IF get_click_target(last'.arg) = None
        THEN last'.result = R(0) /\ rt' = rt
        ELSE /\ last'.result = ClickAmount(rt.state, last'.arg)
             /\ rt'.state.currencies[last'.arg].total_earned =
                  RAdd(rt.state.currencies[last'.arg].total_earned,
                       ClickAmount(rt.state, last'.arg))
             /\ rt'.state.currencies[last'.arg].current =
                  MinWithCap(rt.state, last'.arg,
                             RAdd(rt.state.currencies[last'.arg].current,
                                  ClickAmount(rt.state, last'.arg)))]_vars

\* a click worth (2 + 1) x 2 = 6 has just been clamped to the resolved cap
C22_Witness ==
    /\ definition = ClickGame
    /\ last.op = "process_click" /\ last.arg = "gold"
    /\ last.result = R(6)
    /\ _resolve_cap(rt.state, "gold") = Some(currency_value(rt.state, "gold"))
    /\ RGt(total_earned(rt.state, "gold"), currency_value(rt.state, "gold"))

\* the cost currencies of e that the balance does not cover
ShortCurrencies(st, e) ==
    {c \in DOMAIN compute_current_cost(st, e) :
        RLt(currency_value(st, c), compute_current_cost(st, e)[c])}

\* shortfall / rate of one short currency
WaitFor(st, e, c) ==
    RDiv(RSub(compute_current_cost(st, e)[c], currency_value(st, c)),
         currency_rate(st, c))

\* the answer the time-to-afford query owes for e: none exactly when a short
\* currency has a rate <= 0, 0 when nothing is short, else the largest wait
TimeToAffordOwed(st, e) ==
    IF \E c \in ShortCurrencies(st, e) : RLe(currency_rate(st, c), R(0)) THEN None
    ELSE IF ShortCurrencies(st, e) = {} THEN Some(R(0))
    ELSE Some(CHOOSE t \in {WaitFor(st, e, c) : c \in ShortCurrencies(st, e)} :
                \A c \in ShortCurrencies(st, e) : RGe(t, WaitFor(st, e, c)))

\* C23: for every element, compute_time_to_afford is none exactly when some cost
\* currency is short and its rate is <= 0, is 0 whenever every cost currency is
\* covered by the balance, and is otherwise the largest shortfall / rate
C23_NeverAndNowDistinguished ==
    \A e \in SeqIds(definition.elements) :
        compute_time_to_afford(rt, e) = TimeToAffordOwed(rt.state, e)

----------------------------------------------------------------------------
(* GameDefinition.validate and the construction of a GameRuntime            *)
(* (definition.py, runtime.py)                                              *)

\* one entry of the error list: the message and the ids it names
Error(msg, ids) == [msg |-> msg, ids |-> ids]

\* "seen: set = set(); for x in xs: if x.id in seen: errors.append(...)"
DuplicateErrors(xs, msg) ==
    Flatten([i \in 1..Len(xs) |->
                IF \E j \in 1..(i - 1) : xs[j].id = xs[i].id
                THEN <<Error(msg, <<xs[i].id>>)>> ELSE <<>>])

\* the keys of a dict, in one order
RECURSIVE KeysOf(_)
KeysOf(S) ==
    IF S = {} THEN <<>>
    ELSE LET k == CHOOSE k \in S : TRUE IN <<k>> \o KeysOf(S \ {k})

\* "Check element cost currencies exist"
CostErrors(defn) ==
    Flatten([i \in 1..Len(defn.elements) |->
        SelectSeq([k \in 1..Len(KeysOf(DOMAIN defn.elements[i].base_cost)) |->
                      Error("references unknown currency in base_cost",
                            <<defn.elements[i].id,
                              KeysOf(DOMAIN defn.elements[i].base_cost)[k]>>)],
                  LAMBDA err : err.ids[2] \notin SeqIds(defn.currencies))])

\* the effect types whose target validate looks up among the currencies, and
\* among the elements
CurrencyTargeted ==
    {"PRODUCTION_FLAT", "PRODUCTION_ADD_PCT", "PRODUCTION_MULT", "CLICK_FLAT",
     "CLICK_MULT", "CAP_FLAT", "CAP_MULT", "AUTO_CLICK", "GRANT"}
ElementTargeted == {"COST_MULT", "UNLOCK"}

\* "Check effect targets reference known currencies"
EffectError(defn, e, eff) ==
    IF eff.type \in CurrencyTargeted
    THEN IF eff.target \notin SeqIds(defn.currencies)
         THEN <<Error("has effect targeting unknown currency", <<e.id, eff.target>>)>>
         ELSE <<>>
    ELSE IF eff.type \in ElementTargeted
    THEN IF eff.target \notin SeqIds(defn.elements)
         THEN <<Error("has effect targeting unknown element", <<e.id, eff.target>>)>>
         ELSE <<>>
    ELSE <<>>

EffectErrors(defn) ==
    Flatten([i \in 1..Len(defn.elements) |->
        Flatten([k \in 1..Len(defn.elements[i].effects) |->
                    EffectError(defn, defn.elements[i], defn.elements[i].effects[k])])])

\* "Check click targets reference known currencies"
ClickTargetErrors(defn) ==
    Flatten([i \in 1..Len(defn.click_targets) |->
        IF defn.click_targets[i].currency \notin SeqIds(defn.currencies)
        THEN <<Error("ClickTarget references unknown currency",
                     <<defn.click_targets[i].currency>>)>>
        ELSE <<>>])

\* "if isinstance(reset, list): for id in reset: if id not in known"
ResetErrors(p, reset, known, msg) ==
    IF reset.kind = "list"
    THEN Flatten([k \in 1..Len(reset.ids) |->
            IF reset.ids[k] \notin known
            THEN <<Error(msg, <<p.id, reset.ids[k]>>)>> ELSE <<>>])
    ELSE <<>>

\* "Check prestige layers"
PrestigeErrors(defn) ==
    Flatten([i \in 1..Len(defn.prestige_layers) |->
        (IF defn.prestige_layers[i].prestige_currency \notin SeqIds(defn.currencies)
         THEN <<Error("PrestigeLayer references unknown currency",
                      <<defn.prestige_layers[i].id,
                        defn.prestige_layers[i].prestige_currency>>)>>
         ELSE <<>>)
        \o ResetErrors(defn.prestige_layers[i], defn.prestige_layers[i].currencies_reset,
                       SeqIds(defn.currencies), "PrestigeLayer resets unknown currency")
        \o ResetErrors(defn.prestige_layers[i], defn.prestige_layers[i].elements_reset,
                       SeqIds(defn.elements), "PrestigeLayer resets unknown element")])

\* getattr(eff, "_created_by", None): the attribute where the effect has one
created_by(eff) ==
    IF "_created_by" \in DOMAIN eff THEN Some(eff._created_by) ELSE None

\* "Warn about per_count() used with multiplicative effect types"
PerCountWarnings(defn) ==
    Flatten([i \in 1..Len(defn.elements) |->
        Flatten([k \in 1..Len(defn.elements[i].effects) |->
            IF /\ created_by(defn.elements[i].effects[k]) = Some("per_count")
               /\ defn.elements[i].effects[k].type \in {"PRODUCTION_MULT", "GLOBAL_MULT"}
            THEN <<Error("uses per_count() with a multiplicative type",
                         <<defn.elements[i].id, defn.elements[i].effects[k].target>>)>>
            ELSE <<>>])])

\* GameDefinition.validate: the error list returned and the warnings emitted
validate(defn) ==
    [errors |-> DuplicateErrors(defn.currencies, "Duplicate currency ID")
                \o DuplicateErrors(defn.elements, "Duplicate element ID")
                \o DuplicateErrors(defn.milestones, "Duplicate milestone ID")
                \o CostErrors(defn)
                \o EffectErrors(defn)
                \o ClickTargetErrors(defn)
                \o PrestigeErrors(defn),
     warnings |-> PerCountWarnings(defn)]

\* no GameRuntime object
NoRuntime == <<>>

\* GameRuntime(definition): ValueError with the joined error list where validate
\* returns errors, else the new runtime
Construct(defn) ==
    IF validate(defn).errors # <<>>
    THEN [raised |-> TRUE, errors |-> validate(defn).errors,
          warnings |-> validate(defn).warnings, rt |-> NoRuntime]
    ELSE [raised |-> FALSE, errors |-> <<>>,
          warnings |-> validate(defn).warnings, rt |-> GameRuntime(defn)]

\* the parts a definition under validation is assembled from
CurrencyLists ==
    {<<CurrencyDef("gold", R(3), None, FALSE)>>,
     <<CurrencyDef("gold", R(3), None, FALSE), CurrencyDef("gold", R(1), None, FALSE)>>}
CostMaps == {[gold |-> R(1)], [silver |-> R(1)], [gold |-> R(1), silver |-> R(1)]}
EffectChoices ==
    {EffectStatic("PRODUCTION_FLAT", "gold", R(1), None),
     EffectStatic("PRODUCTION_FLAT", "silver", R(1), None),
     EffectPerCount("miner", "PRODUCTION_FLAT", "gold", R(1), None),
     EffectPerCount("miner", "PRODUCTION_MULT", "gold", R(2), None),
     EffectPerCount("miner", "GLOBAL_MULT", "gold", R(2), None),
     EffectStatic("COST_MULT", "miner", Half, None),
     EffectStatic("UNLOCK", "ghost", R(1), None)}
MilestoneLists ==
    {<<MilestoneDef("rich", Some(ReqResource("gold", ">=", R(5))))>>,
     <<MilestoneDef("rich", Some(ReqResource("gold", ">=", R(5)))),
       MilestoneDef("rich", Some(ReqTime(">=", R(1))))>>}
Layer(id, currency, creset, ereset) ==
    PrestigeLayerDef(id, currency, Some(RewardConst(R(1))), creset, ereset, <<>>, R(1))
LayerLists ==
    {<<>>,
     <<Layer("rebirth", "gold", AllNonPersistent, AllNonPersistent)>>,
     <<Layer("rebirth", "silver", AllNonPersistent, AllNonPersistent)>>,
     <<Layer("rebirth", "gold", ResetList(<<"gold", "silver">>), ResetList(<<"ghost">>))>>,
     <<Layer("rebirth", "gold", AllNonPersistent, AllNonPersistent),
       Layer("rebirth", "gold", ResetList(<<"gold">>), ResetList(<<"miner">>))>>}
ClickTargetLists == {<<ClickTarget("gold", R(1))>>, <<ClickTarget("silver", R(1))>>}

Miner(cost, eff) == ElementDef("miner", cost, ScalingFixed, None, <<eff>>, <<>>, <<>>, {})
ElementLists ==
    {<<Miner(cost, eff)>> : cost \in CostMaps, eff \in EffectChoices}
    \cup {<<Miner([gold |-> R(1)], eff), Miner([gold |-> R(2)], eff)>> : eff \in EffectChoices}

Definitions ==
    {[currencies |-> cs, elements |-> es, milestones |-> ms,
      prestige_layers |-> ls, click_targets |-> cts] :
        cs \in CurrencyLists, es \in ElementLists, ms \in MilestoneLists,
        ls \in LayerLists, cts \in ClickTargetLists}

\* SpecValidate: a definition is validated, and a GameRuntime is constructed from it
InitValidate ==
    /\ definition \in Definitions
    /\ rt = NoRuntime
    /\ last = Op("init", "", TRUE, 0)
    /\ strat = NoSim
    /\ simT = NoSim
    /\ simJ = NoSim

Validate ==
    /\ last.op = "init"
    /\ last' = Op("validate", "", validate(definition), last.n + 1)
    /\ UNCHANGED <<definition, rt, strat, simT, simJ>>

ConstructRuntime ==
    /\ last.op \in {"init", "validate"}
    /\ \E res \in {Construct(definition)} :
        /\ rt' = res.rt
        /\ last' = Op("construct", "", [raised |-> res.raised, errors |-> res.errors,
                                        warnings |-> res.warnings], last.n + 1)
    /\ UNCHANGED <<definition, strat, simT, simJ>>

NextValidate == Validate \/ ConstructRuntime

SpecValidate == InitValidate /\ [][NextValidate]_vars

----------------------------------------------------------------------------
(* Properties of validation and construction (SpecValidate)                 *)

\* the ids that occur more than once in a definition list
Repeated(xs) == {xs[i].id : i \in {k \in 1..Len(xs) : \E j \in 1..(k - 1) : xs[j].id = xs[k].id}}

UniqueIds(xs) == Repeated(xs) = {}

\* the (owner, id) pairs a definition refers to: cost currencies, effect targets
\* that name a currency or an element, click-target currencies, prestige
\* currencies and the entries of explicit reset lists
CurrencyReferences(defn) ==
    UNION {{<<e.id, c>> : c \in DOMAIN e.base_cost} : e \in Range(defn.elements)}
    \cup UNION {{<<e.id, eff.target>> : eff \in {x \in Range(e.effects) : x.type \in CurrencyTargeted}} :
                    e \in Range(defn.elements)}
    \cup {<<"click_target", ct.currency>> : ct \in Range(defn.click_targets)}
    \cup {<<p.id, p.prestige_currency>> : p \in Range(defn.prestige_layers)}
    \cup UNION {{<<p.id, c>> : c \in Range(p.currencies_reset.ids)} :
                    p \in {x \in Range(defn.prestige_layers) : x.currencies_reset.kind = "list"}}

ElementReferences(defn) ==
    UNION {{<<e.id, eff.target>> : eff \in {x \in Range(e.effects) : x.type \in ElementTargeted}} :
                    e \in Range(defn.elements)}
    \cup UNION {{<<p.id, el>> : el \in Range(p.elements_reset.ids)} :
                    p \in {x \in Range(defn.prestige_layers) : x.elements_reset.kind = "list"}}

\* the references that name nothing
Dangling(defn) ==
    {r \in CurrencyReferences(defn) : r[2] \notin SeqIds(defn.currencies)}
    \cup {r \in ElementReferences(defn) : r[2] \notin SeqIds(defn.elements)}

WellFormed(defn) ==
    /\ UniqueIds(defn.currencies) /\ UniqueIds(defn.elements)
    /\ UniqueIds(defn.milestones) /\ UniqueIds(defn.prestige_layers)
    /\ Dangling(defn) = {}

\* the ids named by the entries of an error list
Named(errors) == UNION {Range(errors[i].ids) : i \in 1..Len(errors)}

\* every repeated id and every dangling reference is named in the error list
ListsEveryViolation(defn, errors) ==
    /\ \A xs \in {defn.currencies, defn.elements, defn.milestones, defn.prestige_layers} :
            Repeated(xs) # {} =>
                \E i \in 1..Len(errors) : errors[i].ids \in {<<id>> : id \in Repeated(xs)}
    /\ \A r \in Dangling(defn) :
            \E i \in 1..Len(errors) : r[2] \in Range(errors[i].ids)

\* C24: constructing a GameRuntime succeeds only for a definition with unique
\* ids in each category (currencies, elements, milestones, prestige layers) and
\* no dangling cost, effect, click-target or prestige reference; for any other
\* definition it raises one error that lists every violation and creates no runtime
C24_InvalidDefinitionRejected ==
    last.op = "construct" =>
        IF WellFormed(definition)
        THEN ~last.result.raised /\ rt # NoRuntime
        ELSE /\ last.result.raised
             /\ rt = NoRuntime
             /\ ListsEveryViolation(definition, last.result.errors)

\* the (element, target) pairs of the effects built by Effect.per_count with a
\* multiplicative type
PerCountMultiplicative(defn) ==
    UNION {{<<e.id, eff.target>> :
                eff \in {x \in Range(e.effects) :
                            x.value.kind = "per_count"
                            /\ x.type \in {"PRODUCTION_MULT", "GLOBAL_MULT"}}} :
           e \in Range(defn.elements)}

\* C28: validating a definition in which an effect built by Effect.per_count
\* has type PRODUCTION_MULT or GLOBAL_MULT emits a warning for it, and the
\* error list holds no entry for it
C28_PerCountMultiplierWarned ==
    (last.op = "validate" /\ PerCountMultiplicative(definition) # {}) =>
        /\ \A p \in PerCountMultiplicative(definition) :
                \E i \in 1..Len(last.result.warnings) : last.result.warnings[i].ids = p
        /\ \A i \in 1..Len(last.result.errors) :
                last.result.errors[i].msg # "uses per_count() with a multiplicative type"

----------------------------------------------------------------------------
(* The MCP tool functions over a runtime (mcp/server.py)                    *)

\* round(x, ndigits) of a number: the nearest multiple of 10^-ndigits, a tie
\* going to the even one
round(x, ndigits) ==
    LET scaled == RMul(x, R(10 ^ ndigits))
        floor == scaled[1] \div scaled[2]
        twice == 2 * (scaled[1] - floor * scaled[2])
        near == IF twice > scaled[2] THEN floor + 1
                ELSE IF twice < scaled[2] THEN floor
                ELSE IF floor % 2 = 0 THEN floor ELSE floor + 1
    IN  Rat(near, 10 ^ ndigits)

\* _tool_get_game_state: the state as the tool reports it
_tool_get_game_state(r) ==
    [time_elapsed |-> round(r.state.time_elapsed, 2),
     currencies |-> [c \in DOMAIN r.state.currencies |->
                        [current |-> round(r.state.currencies[c].current, 2),
                         total_earned |-> round(r.state.currencies[c].total_earned, 2),
                         rate |-> round(r.state.currencies[c].current_rate, 4)]],
     elements |-> [e \in DOMAIN r.state.elements |->
                        [count |-> r.state.elements[e].count,
                         available |-> r.state.elements[e].available,
                         affordable |-> r.state.elements[e].affordable]],
     milestones_reached |-> [i \in 1..Len(r.state.milestones_reached) |->
                                r.state.milestones_reached[i].id],
     prestige_counts |-> r.state.prestige_counts,
     run_number |-> r.state.run_number]

\* _tool_purchase: [rt |-> the runtime after, result |-> the dict returned]
_tool_purchase(r, element_id) ==
    IF get_element(element_id) = None
    THEN [rt |-> r, result |-> [error |-> "Unknown element"]]
    ELSE IF /\ get_element(element_id)[1].max_count # None
            /\ r.state.elements[element_id].count >= get_element(element_id)[1].max_count[1]
    THEN [rt |-> r, result |-> [success |-> FALSE, reason |-> "Already at max count"]]
    ELSE IF /\ ~r.state.elements[element_id].available
            /\ ~r.state.elements[element_id].unlocked
    THEN [rt |-> r, result |-> [success |-> FALSE,
                                reason |-> "Not available (requirements not met)"]]
    ELSE IF try_purchase(r, element_id).ok
    THEN [rt |-> try_purchase(r, element_id).rt,
          result |-> [success |-> TRUE, element_id |-> element_id,
                      new_count |-> element_count(try_purchase(r, element_id).rt.state,
                                                  element_id)]]
    ELSE [rt |-> try_purchase(r, element_id).rt,
          result |-> [success |-> FALSE, reason |-> "Cannot afford"]]

\* C25: right after a successful purchase, with no tick in between, the rate the
\* game state shows for every currency is the pipeline's rate over the elements
\* now held, the one just bought included
C25_RatesVisibleAfterPurchase ==
    [][(last'.op = "try_purchase" /\ last'.result = TRUE) =>
        \A c \in DOMAIN rt.state.currencies :
            _tool_get_game_state(_tool_purchase(rt, last'.arg).rt).currencies[c].rate
                = round(RateAt(rt'.state, c), 4)]_vars

----------------------------------------------------------------------------
(* SaveForBest and PriorityList (strategy.py), driven over a runtime        *)

\* three elements of rising cost, two of them out of reach at the start, and a
\* fourth behind a requirement
ShopGame ==
    [currencies |-> <<CurrencyDef("gold", R(2), None, FALSE)>>,
     elements |-> <<
        ElementDef("drill", [gold |-> R(4)], ScalingFixed, Some(1), <<>>, <<>>, <<>>, {}),
        ElementDef("pick", [gold |-> R(1)], ScalingLinear(R(1)), Some(2),
                   <<EffectPerCount("pick", "PRODUCTION_FLAT", "gold", R(1), None)>>,
                   <<>>, <<>>, {}),
        ElementDef("cart", [gold |-> R(3)], ScalingFixed, Some(1), <<>>, <<>>, <<>>, {}),
        ElementDef("wagon", [gold |-> R(3)], ScalingFixed, Some(1), <<>>,
                   <<ReqOwns("cart")>>, <<>>, {})>>,
     milestones |-> <<>>,
     prestige_layers |-> <<>>,
     click_targets |-> <<ClickTarget("gold", R(1))>>]

\* SaveForBest(runtime, click_profile): runtime tells whether a runtime is attached
SaveForBest(runtime, click_profile) ==
    [runtime |-> runtime, click_profile |-> click_profile, _saving_for |-> None]

\* PriorityList(priorities, fallback, click_profile): priorities is a list of
\* (element_id, target_count) pairs, fallback None or a GreedyCheapest
PriorityList(priorities, fallback, click_profile) ==
    [priorities |-> priorities, fallback |-> fallback, click_profile |-> click_profile]

\* min(candidates, key=lambda e: sum(e.current_cost.values())): the first of the
\* candidates with the least cost sum
Cheapest(candidates) ==
    candidates[CHOOSE i \in 1..Len(candidates) :
        /\ \A j \in 1..Len(candidates) :
                RLe(RSumOver(candidates[i].current_cost, DOMAIN candidates[i].current_cost),
                    RSumOver(candidates[j].current_cost, DOMAIN candidates[j].current_cost))
        /\ \A j \in 1..(i - 1) :
                RGt(RSumOver(candidates[j].current_cost, DOMAIN candidates[j].current_cost),
                    RSumOver(candidates[i].current_cost, DOMAIN candidates[i].current_cost))]

\* every available element, affordable or not
EveryAvailable(r) == get_available_purchases(r)


\* "[e for e in available if not e.affordable]"
NotAffordable(r) == SelectSeq(get_available_purchases(r), LAMBDA e : ~e.affordable)

\* SaveForBest.decide_purchases: [strategy |-> the strategy after, order |-> the list]
SaveForBest_decide_purchases(s, r, affordable) ==
    IF s._saving_for # None
    THEN IF \E i \in 1..Len(affordable) : affordable[i].id = s._saving_for[1]
         THEN [strategy |-> [s EXCEPT !._saving_for = None],
               order |-> <<s._saving_for[1]>>]
         ELSE [strategy |-> s, order |-> <<>>]
    ELSE IF s.runtime /\ NotAffordable(r) # <<>>
    THEN [strategy |-> [s EXCEPT !._saving_for = Some(Cheapest(NotAffordable(r)).id)],
          order |-> <<>>]
    ELSE IF affordable # <<>>
    THEN [strategy |-> s, order |-> <<Cheapest(affordable).id>>]
    ELSE [strategy |-> s, order |-> <<>>]

\* the loop of PriorityList.decide_purchases from the i-th priority on: the
\* entry returned, or None
RECURSIVE PriorityFrom(_, _, _, _)
PriorityFrom(priorities, i, st, affordable) ==
    IF i > Len(priorities) THEN None
    ELSE IF /\ priorities[i][1] \in Range(Ids(affordable))
            /\ element_count(st, priorities[i][1]) < priorities[i][2]
    THEN Some(priorities[i][1])
    ELSE PriorityFrom(priorities, i + 1, st, affordable)

\* PriorityList.decide_purchases: the list returned, and whether
\* fallback.decide_purchases was called
PriorityList_decide_purchases(s, st, affordable) ==
    IF PriorityFrom(s.priorities, 1, st, affordable) # None
    THEN [order |-> <<PriorityFrom(s.priorities, 1, st, affordable)[1]>>,
          fallback_called |-> FALSE]
    ELSE IF s.fallback # None
    THEN [order |-> decide_purchases(s.fallback[1], affordable), fallback_called |-> TRUE]
    ELSE [order |-> <<>>, fallback_called |-> FALSE]

\* the priority lists and fallbacks a PriorityList is built with
PriorityLists ==
    {<<<<"cart", 1>>>>,
     <<<<"pick", 1>>, <<"cart", 1>>>>,
     <<<<"drill", 1>>, <<"pick", 2>>>>,
     <<<<"pick", 0>>, <<"wagon", 1>>>>}
Fallbacks == {None, Some(GreedyCheapest(None, "never"))}

\* SpecStrategy: a runtime of the ShopGame with a SaveForBest kept across the
\* calls, and PriorityList strategies asked along the way
InitStrategy ==
    /\ definition = ShopGame
    /\ rt = GameRuntime(definition)
    /\ last = Op("init", "", TRUE, 0)
    /\ strat \in {SaveForBest(runtime, None) : runtime \in BOOLEAN}
    /\ simT = NoSim
    /\ simJ = NoSim

\* strategy.decide_purchases(state, runtime.get_affordable_purchases()), as the
\* Simulation loops call it
SaveForBestDecide ==
    /\ last.n < MaxOps
    /\ \E res \in {SaveForBest_decide_purchases(strat, rt, get_affordable_purchases(rt))} :
        /\ strat' = res.strategy
        /\ last' = Op("SaveForBest.decide_purchases",
                      Ids(get_affordable_purchases(rt)), res.order, last.n + 1)
    /\ UNCHANGED <<definition, rt, simT, simJ>>

PriorityListDecide(priorities, fallback) ==
    /\ last.n < MaxOps
    /\ \E res \in {PriorityList_decide_purchases(
                        PriorityList(priorities, fallback, None), rt.state,
                        get_affordable_purchases(rt))} :
        last' = Op("PriorityList.decide_purchases",
                   [priorities |-> priorities, fallback |-> fallback], res, last.n + 1)
    /\ UNCHANGED <<definition, rt, strat, simT, simJ>>

NextStrategy ==
    \/ \E delta \in Deltas : Tick(delta)
    \/ \E e \in ElementArgs : TryPurchase(e)
    \/ \E c \in CurrencyArgs : ProcessClick(c)
    \/ SaveForBestDecide
    \/ \E priorities \in PriorityLists, fallback \in Fallbacks :
            PriorityListDecide(priorities, fallback)

SpecStrategy == InitStrategy /\ [][NextStrategy]_vars

----------------------------------------------------------------------------
(* Properties of the strategies (SpecStrategy)                              *)

\* sum(e.current_cost.values()) of an ElementStatus
CostSum(e) == RSumOver(e.current_cost, DOMAIN e.current_cost)

\* the ElementStatus entries that are available and not affordable in r
Unaffordable(r) ==
    {e \in Range(get_available_purchases(r)) : ~e.affordable}

\* t is a cheapest available-but-unaffordable element of r
CheapestUnaffordable(r, t) ==
    \E e \in Unaffordable(r) :
        /\ e.id = t
        /\ \A o \in Unaffordable(r) : RLe(CostSum(e), CostSum(o))

SaveForBestCalled == last'.op = "SaveForBest.decide_purchases"

Wanted(priorities, st, affordable_ids) ==
    {i \in 1..Len(priorities) :
        /\ priorities[i][1] \in affordable_ids
        /\ element_count(st, priorities[i][1]) < priorities[i][2]}

\* every entry of the list has reached its target count
Exhausted(priorities, st) ==
    \A i \in 1..Len(priorities) : element_count(st, priorities[i][1]) >= priorities[i][2]

\* C27: PriorityList.decide_purchases returns exactly the first priority entry
\* that is affordable now and below its target count, and calls the fallback
\* only when every entry of the list has reached its target count
C27_FallbackOnlyWhenExhausted ==
    [][last'.op = "PriorityList.decide_purchases" =>
        IF Wanted(last'.arg.priorities, rt.state,
                  Range(Ids(get_affordable_purchases(rt)))) # {}
        THEN /\ \E i \in Wanted(last'.arg.priorities, rt.state,
                                Range(Ids(get_affordable_purchases(rt)))) :
                    /\ last'.result.order = <<last'.arg.priorities[i][1]>>
                    /\ \A j \in Wanted(last'.arg.priorities, rt.state,
                                       Range(Ids(get_affordable_purchases(rt)))) : i <= j
             /\ ~last'.result.fallback_called
        ELSE last'.result.fallback_called => Exhausted(last'.arg.priorities, rt.state)
      ]_vars

----------------------------------------------------------------------------
(* The order of the steps of a tick (Spec)                                  *)

\* the state a tick has produced, seen with the milestones it started from:
\* what the flag refresh reads
BeforeMilestones(before, after) ==
    [after EXCEPT !.milestones_reached = before.milestones_reached]

\* the ids of the milestones entered by a step
Entered(before, after) ==
    {after.milestones_reached[i].id :
        i \in (Len(before.milestones_reached) + 1)..Len(after.milestones_reached)}

----------------------------------------------------------------------------
(* The wait branch of the event-jump loop (SpecSim)                         *)

\* the time the loop finds for one element: the production-only time, or the
\* time with click income where that is none and there is click income
TimeFound(r, s, e) ==
    IF compute_time_to_afford(r, e) # None THEN compute_time_to_afford(r, e)
    ELSE IF DOMAIN _compute_click_income_rate(s) # {}
    THEN _compute_time_to_afford_with_clicks(r, e, _compute_click_income_rate(s))
    ELSE None

\* the determinate times over the available elements
DeterminateTimes(r, s) ==
    {TimeFound(r, s, e)[1] :
        e \in {x \in Range(Ids(get_available_purchases(r))) :
                    /\ TimeFound(r, s, x) # None
                    /\ RGe(TimeFound(r, s, x)[1], R(0))}}

\* the least of them, or the tick resolution where that is not positive
OwedJump(r, s) ==
    LET least == CHOOSE t \in DeterminateTimes(r, s) :
                    \A u \in DeterminateTimes(r, s) : RLe(t, u)
    IN  IF RLe(least, R(0)) THEN tick_resolution ELSE least

\* base value x count, summed over the strategy's clicks on c for a wait
WaitClickTotal(s, c, duration) ==
    RSum([i \in 1..Len(get_clicks(s, duration, TRUE)) |->
            IF /\ get_clicks(s, duration, TRUE)[i].currency = c
               /\ get_click_target(c) # None
            THEN RMul(get_click_target(c)[1].base_value,
                      R(get_clicks(s, duration, TRUE)[i].count))
            ELSE R(0)])

\* the runtime with those clicks added to balance and total-earned
WithWaitClicks(r, s, duration) ==
    [state |->
        [r.state EXCEPT !.currencies =
            [c \in DOMAIN r.state.currencies |->
                CurrencyState(
                    RAdd(r.state.currencies[c].current, WaitClickTotal(s, c, duration)),
                    RAdd(r.state.currencies[c].total_earned, WaitClickTotal(s, c, duration)),
                    r.state.currencies[c].current_rate)]],
     dirty |-> r.dirty]

\* the event-jump loop takes a pass with nothing affordable and a time to wait for
WaitBranch ==
    /\ simJ.pc = "run"
    /\ simJ'.count = simJ.count + 1
    /\ get_affordable_purchases(simJ.runtime) = <<>>
    /\ DeterminateTimes(simJ.runtime, strat) # {}

\* C30: in the wait branch the jump lasts the least determinate time-to-afford
\* over the available elements (the tick resolution where that is <= 0), the
\* strategy's clicks for that duration go straight to balance and total-earned,
\* the runtime is advanced by the whole duration in one tick, and exactly one
\* wait event of that duration is recorded
C30_JumpWaitsLeastTime ==
    [][WaitBranch =>
        /\ simJ'.runtime =
             tick(WithWaitClicks(simJ.runtime, strat, OwedJump(simJ.runtime, strat)),
                  OwedJump(simJ.runtime, strat))
        /\ simJ'.runtime.state.time_elapsed =
             RAdd(simJ.runtime.state.time_elapsed, OwedJump(simJ.runtime, strat))
        /\ simJ'.collector.waits =
             Append(simJ.collector.waits,
                    [time |-> simJ'.runtime.state.time_elapsed,
                     duration |-> OwedJump(simJ.runtime, strat)])
      ]_vars

\* one wait of the OrderGame run with clicks during waits: nothing affordable
\* after the miner, the palace 10 seconds away at one click a second; the jump
\* adds 10 clicks and 10 seconds of production and records the wait
C30_Witness ==
    /\ definition = OrderGame
    /\ strat.click_profile # None
    /\ simJ.pc = "run"
    /\ simJ.collector.waits = <<[time |-> R(10), duration |-> R(10)]>>
    /\ simJ.runtime.state.time_elapsed = R(10)
    /\ currency_value(simJ.runtime.state, "gold") = R(20)
    /\ total_earned(simJ.runtime.state, "gold") = R(22)

----------------------------------------------------------------------------
(* The two loops of the Simulation under each built-in strategy class      *)
(* (SpecRun).  strat holds the strategy object of each run, since          *)
(* SaveForBest keeps its target between the calls: strat.tick is the       *)
(* strategy of the tick-mode run simT, strat.event_jump that of simJ.      *)

\* GreedyROI(runtime, click_profile, prestige_mode): runtime tells whether a
\* runtime is attached
GreedyROI(runtime, click_profile, prestige_mode) ==
    [runtime |-> runtime, click_profile |-> click_profile,
     prestige_mode |-> prestige_mode]

\* strategy.decide_purchases(state, affordable) by the class of the strategy:
\* [strategy |-> the strategy after the call, rt |-> the runtime after it (only
\* GreedyROI touches it), order |-> the ids returned]
Strategy_decide_purchases(s, r, affordable) ==
    IF "priorities" \in DOMAIN s
    THEN [strategy |-> s, rt |-> r,
          order |-> PriorityList_decide_purchases(s, r.state, affordable).order]
    ELSE IF "_saving_for" \in DOMAIN s
    THEN [strategy |-> SaveForBest_decide_purchases(s, r, affordable).strategy,
          rt |-> r,
          order |-> SaveForBest_decide_purchases(s, r, affordable).order]
    ELSE IF "runtime" \in DOMAIN s
    THEN IF s.runtime
         THEN [strategy |-> s,
               rt |-> GreedyROI_decide_purchases(r, affordable).rt,
               order |-> GreedyROI_decide_purchases(r, affordable).order]
         ELSE [strategy |-> s, rt |-> r, order |-> Ids(affordable)]
    ELSE [strategy |-> s, rt |-> r, order |-> decide_purchases(s, affordable)]

\* the most passes of a loop that are followed
MaxPasses == 9

\* the strategies the runs are given: each class, with the runtime attached as
\* cli.py attaches it, a PriorityList with and without a fallback
RunStrategies ==
    {GreedyCheapest(None, "first_opportunity"),
     GreedyROI(TRUE, None, "never"),
     GreedyROI(TRUE, Some(ClickProfile(<<[currency |-> "gold", cps |-> R(1)]>>, TRUE)),
               "first_opportunity"),
     SaveForBest(TRUE, None),
     SaveForBest(FALSE, None),
     PriorityList(<<<<"cart", 1>>>>, None, None),
     PriorityList(<<<<"pick", 1>>, <<"cart", 1>>>>,
                  Some(GreedyCheapest(None, "never")), None)}

\* one element whose cost is not a whole number of clicks, paid for by clicks
\* alone, and a milestone whose trigger holds from the start
HutGame ==
    [currencies |-> <<CurrencyDef("gold", R(0), None, FALSE)>>,
     elements |-> <<
        ElementDef("hut", [gold |-> Rat(5, 2)], ScalingFixed, Some(1), <<>>, <<>>, <<>>, {})>>,
     milestones |-> <<MilestoneDef("open", Some(ReqResource("gold", ">=", R(0))))>>,
     prestige_layers |-> <<>>,
     click_targets |-> <<ClickTarget("gold", R(1))>>]


\* A capped currency that only clicks earn, and an element that costs more than
\* the cap.
VaultGame ==
    [currencies |-> <<CurrencyDef("gold", R(0), Some(R(2)), FALSE)>>,
     elements |-> <<
        ElementDef("safe", [gold |-> R(3)], ScalingFixed, Some(1), <<>>, <<>>, <<>>, {})>>,
     milestones |-> <<>>,
     prestige_layers |-> <<>>,
     click_targets |-> <<ClickTarget("gold", R(1))>>]


RunGames == {ShopGame, CoreGame, OrderGame, HutGame, VaultGame}

InitRun ==
    /\ definition \in RunGames
    /\ \E s \in RunStrategies : strat = [tick |-> s, event_jump |-> s]
    /\ \E terminal \in Terminals :
        /\ simT = Simulation("tick", terminal, BaseSeed)
        /\ simJ = Simulation("event_jump", terminal, BaseSeed)
    /\ rt = GameRuntime(definition)
    /\ last = Op("init", "", TRUE, 0)

\* _run_tick: "Advance time" and "Process clicks"
TickedAndClicked(sim, s) ==
    [sim EXCEPT !.runtime =
        ReplayClicksFrom(tick(sim.runtime, tick_resolution),
                         get_clicks(s, tick_resolution, FALSE), 1)]

\* one pass of the while loop of _run_tick: tick and clicks, then the
\* strategy's decision on the affordable elements, the purchases, the prestige
\* layers and the new milestones
TickPass ==
    /\ simT.pc = "run"
    /\ ~is_met(simT)
    /\ simT.count + 1 <= MAX_TICKS
    /\ simT.count < MaxPasses
    /\ \E pre \in {TickedAndClicked(simT, strat.tick)} :
       \E res \in {Strategy_decide_purchases(strat.tick, pre.runtime,
                        get_affordable_purchases(pre.runtime))} :
        /\ simT' = [RecordMilestonesFrom(
                        PrestigeFrom(
                            BuyFrom([pre EXCEPT !.runtime = res.rt], res.order, 1),
                            res.strategy, 1),
                        1)
                    EXCEPT !.count = @ + 1]
        /\ strat' = [strat EXCEPT !.tick = res.strategy]
    /\ UNCHANGED <<definition, simJ, rt, last>>

TickEnd ==
    /\ simT.pc = "run"
    /\ is_met(simT) \/ simT.count + 1 > MAX_TICKS
    /\ simT' = [simT EXCEPT !.pc = "done", !.outcome = TickOutcome(simT)]
    /\ UNCHANGED <<definition, strat, simJ, rt, last>>

JumpBegin ==
    /\ simJ.pc = "start"
    /\ simJ' = InitialTick(simJ)
    /\ UNCHANGED <<definition, strat, simT, rt, last>>

\* one pass of the while loop of _run_event_jump with something affordable: the
\* strategy's decision, the purchases, the new milestones
JumpBuyPass ==
    /\ simJ.pc = "run"
    /\ ~is_met(simJ)
    /\ simJ.count + 1 <= MAX_TICKS
    /\ simJ.count < MaxPasses
    /\ get_affordable_purchases(simJ.runtime) # <<>>
    /\ \E res \in {Strategy_decide_purchases(strat.event_jump, simJ.runtime,
                        get_affordable_purchases(simJ.runtime))} :
        /\ simJ' = RecordMilestonesFrom(
                        BuyFrom([simJ EXCEPT !.count = @ + 1, !.runtime = res.rt],
                                res.order, 1),
                        1)
        /\ strat' = [strat EXCEPT !.event_jump = res.strategy]
    /\ UNCHANGED <<definition, simT, rt, last>>

\* one pass with nothing affordable: the wait for the nearest element, or the
\* stall that ends the loop
JumpWaitPass ==
    /\ simJ.pc = "run"
    /\ ~is_met(simJ)
    /\ simJ.count + 1 <= MAX_TICKS
    /\ simJ.count < MaxPasses
    /\ get_affordable_purchases(simJ.runtime) = <<>>
    /\ simJ' = WaitOrStall([simJ EXCEPT !.count = @ + 1], strat.event_jump,
                           JumpTimes(simJ.runtime, strat.event_jump))
    /\ UNCHANGED <<definition, strat, simT, rt, last>>

JumpEnd ==
    /\ simJ.pc = "run"
    /\ is_met(simJ) \/ simJ.count + 1 > MAX_TICKS
    /\ simJ' = [simJ EXCEPT !.pc = "done", !.outcome = JumpOutcome(simJ)]
    /\ UNCHANGED <<definition, strat, simT, rt, last>>

NextRun ==
    \/ TickPass
    \/ TickEnd
    \/ JumpBegin
    \/ JumpBuyPass
    \/ JumpWaitPass
    \/ JumpEnd

SpecRun == InitRun /\ [][NextRun]_vars

----------------------------------------------------------------------------
(* Properties of the simulation loops under every strategy class (SpecRun) *)

\* the event-jump loop takes a pass
JumpPassTaken ==
    /\ simJ.pc = "run"
    /\ simJ'.count = simJ.count + 1

\* the pass completed a purchase, advanced the elapsed time, or ended the run
MadeProgress ==
    \/ simJ'.context.total_purchases > simJ.context.total_purchases
    \/ RGt(simJ'.runtime.state.time_elapsed, simJ.runtime.state.time_elapsed)
    \/ simJ'.pc = "done"

\* C31: every pass of the event-jump loop completes at least one purchase,
\* advances the elapsed time by a positive amount, or ends the run, whichever
\* built-in strategy decides the purchases
C31_JumpPassMakesProgress ==
    [][JumpPassTaken => MadeProgress]_vars

\* the element the event-jump loop waits for: the first of the least time
NextId(r, s) == MinTime(JumpTimes(r, s)).id

\* the loop takes a wait whose duration is the positive time found for the
\* element waited for
WaitedForElement ==
    /\ JumpPassTaken
    /\ get_affordable_purchases(simJ.runtime) = <<>>
    /\ JumpTimes(simJ.runtime, strat.event_jump) # <<>>
    /\ RGt(MinTime(JumpTimes(simJ.runtime, strat.event_jump)).t[1], R(0))

\* C32: at the end of a wait that lasted the time-to-afford of an element, the
\* balances cover that element's current cost in every currency, and the
\* runtime lists it as affordable for the next pass
C32_WaitedElementAffordable ==
    [][WaitedForElement =>
        /\ Covers(simJ'.runtime.state,
                  compute_current_cost(simJ'.runtime.state,
                                       NextId(simJ.runtime, strat.event_jump)))
        /\ NextId(simJ.runtime, strat.event_jump)
                \in Range(Ids(get_affordable_purchases(simJ'.runtime)))
      ]_vars

\* SimulationReport.milestone_times of build_report: milestone id -> the time of
\* its last event in the collector
milestone_times(sim) ==
    [mid \in {sim.collector.milestones[i].milestone_id :
                    i \in 1..Len(sim.collector.milestones)} |->
        sim.collector.milestones[
            CHOOSE i \in 1..Len(sim.collector.milestones) :
                /\ sim.collector.milestones[i].milestone_id = mid
                /\ \A j \in (i + 1)..Len(sim.collector.milestones) :
                        sim.collector.milestones[j].milestone_id # mid].time]

\* the time state.milestones_reached holds for a milestone, None if it holds none
ReachedAt(st, mid) ==
    IF \E i \in 1..Len(st.milestones_reached) : st.milestones_reached[i].id = mid
    THEN Some(st.milestones_reached[
                CHOOSE i \in 1..Len(st.milestones_reached) :
                    st.milestones_reached[i].id = mid].time)
    ELSE None

\* the report of a finished run gives every milestone the time the runtime
\* fired it at
ReportedAsFired(sim) ==
    sim.pc = "done" =>
        \A mid \in DOMAIN milestone_times(sim) :
            ReachedAt(sim.runtime.state, mid) = Some(milestone_times(sim)[mid])

\* C33: in the report of a finished run, in tick mode and in event-jump mode,
\* the time given for a milestone is the elapsed time at which the runtime
\* fired it, the value kept in the state's milestones_reached
C33_ReportedMilestoneTime ==
    ReportedAsFired(simT) /\ ReportedAsFired(simJ)

----------------------------------------------------------------------------
(* Properties of GreedyROI.decide_purchases (Spec)                          *)

\* a call of GreedyROI.decide_purchases on the runtime's affordable elements
DecideCalled ==
    /\ last'.op = "decide_purchases"
    /\ last'.n = last.n + 1

\* the ROI of a candidate bought alone from the runtime r: the gain in the total
\* production rate over its total cost, infinite for a candidate that costs
\* nothing
AloneROI(r, elem) ==
    IF RLe(CostSum(elem), R(0)) THEN ScoreInf
    ELSE Score(RDiv(RSub(TotalRate(_recompute_rates(try_purchase(r, elem.id).rt.state)),
                         TotalRate(r.state)),
                    CostSum(elem)))

\* the candidate of a list with a given id
Candidate(affordable, id) ==
    affordable[CHOOSE i \in 1..Len(affordable) : affordable[i].id = id]

\* the ids of order are those of affordable, each once
EachOnce(order, affordable) ==
    /\ Len(order) = Len(affordable)
    /\ Range(order) = Range(Ids(affordable))

\* order never puts a candidate before one of greater ROI
ByROI(order, affordable, r) ==
    \A i \in 1..Len(order) : \A j \in (i + 1)..Len(order) :
        ScoreGe(AloneROI(r, Candidate(affordable, order[i])),
                AloneROI(r, Candidate(affordable, order[j])))

\* C34: GreedyROI.decide_purchases with a runtime attached returns every
\* affordable candidate id exactly once, in an order of non-increasing ROI, the
\* ROI of a candidate being the gain in total production rate of buying it
\* alone from the state before the call over its total cost
C34_RankedByROI ==
    [][DecideCalled =>
        /\ EachOnce(last'.result, last'.arg)
        /\ ByROI(last'.result, last'.arg, rt)
      ]_vars

----------------------------------------------------------------------------
(* Prestige in the two loops (SpecSim)                                      *)

\* the layers the strategy asks for whose requirements and minimum reward are
\* met in the runtime r: trigger_prestige would succeed
LayersDue(r, s) ==
    {l \in SeqIds(definition.prestige_layers) :
        should_prestige(s, l) /\ trigger_prestige(r, l).result.success}

\* a pass of a loop from old to new ends with no layer due, or has recorded a
\* prestige event
PrestigeTaken(old, new, s) ==
    \/ LayersDue(new.runtime, s) = {}
    \/ Len(new.collector.prestiges) > Len(old.collector.prestiges)

\* C35: with a strategy that asks for prestige, a pass of the event-jump loop
\* that brings the requirements and the minimum reward of a layer to hold
\* triggers a layer and records the prestige event, as a pass of the tick loop
\* does
C35_EventJumpTriggersPrestige ==
    [][(simJ.pc = "run" /\ simJ'.count = simJ.count + 1 /\ simJ'.pc = "run")
            => PrestigeTaken(simJ, simJ', strat)]_vars

----------------------------------------------------------------------------
(* Balances under arbitrary callers (Spec)                                  *)

\* C36: the CoreGame starts with non-negative balances and has non-negative
\* costs, rates, click values and rewards; no sequence of ticks, clicks,
\* purchases, prestiges and GreedyROI decisions makes a balance negative
C36_BalancesNeverNegative ==
    \A c \in DOMAIN rt.state.currencies : RGe(currency_value(rt.state, c), R(0))

\* a GreedyROI decision that ranked a candidate, taken after a purchase has
\* spent a balance down to exactly zero
C36_Witness ==
    /\ last.op = "decide_purchases"
    /\ last.result # <<>>
    /\ \E c \in DOMAIN rt.state.currencies : currency_value(rt.state, c) = R(0)

----------------------------------------------------------------------------
(* The cap at the end of a tick (SpecRun)                                   *)

\* the definition has no AUTO_CLICK effect on the currency
NoAutoClickOn(cid) ==
    \A i \in DOMAIN definition.elements :
        \A j \in DOMAIN definition.elements[i].effects :
            ~(/\ definition.elements[i].effects[j].type = "AUTO_CLICK"
              /\ definition.elements[i].effects[j].target = cid)

\* every capped currency that no AUTO_CLICK effect targets is within its
\* resolved cap
WithinCaps(st) ==
    \A cid \in DOMAIN st.currencies :
        (_resolve_cap(st, cid) # None /\ NoAutoClickOn(cid))
            => RLe(currency_value(st, cid), _resolve_cap(st, cid)[1])

\* a pass of the event-jump loop that waited: it ends with runtime.tick
JumpPassTicked ==
    /\ JumpPassTaken
    /\ get_affordable_purchases(simJ.runtime) = <<>>
    /\ JumpTimes(simJ.runtime, strat.event_jump) # <<>>

\* C37: at the end of every tick, a capped currency that no AUTO_CLICK effect
\* targets holds at most its resolved cap, whatever clicks or rates came before
C37_WithinCapAfterTick ==
    [][JumpPassTicked => WithinCaps(simJ'.runtime.state)]_vars

----------------------------------------------------------------------------
(* The purchase bookkeeping of the SimulationContext (SpecRun)              *)

\* the elapsed time of the most recent recorded purchase, 0 before any
LastRecordedPurchase(sim) ==
    IF sim.collector.purchases = <<>> THEN R(0)
    ELSE sim.collector.purchases[Len(sim.collector.purchases)].time

\* _StallTerminal(IdleSeconds).is_met(state, context) for the run
StallMet(sim) ==
    TerminalMet(Terminal_stall(R(IdleSeconds)), sim.runtime.state, sim.context)

ContextFollowsPurchases(sim) ==
    /\ sim.context.total_purchases = Len(sim.collector.purchases)
    /\ sim.context.last_purchase_time = LastRecordedPurchase(sim)
    /\ StallMet(sim) <=>
        \/ sim.context.stall_detected
        \/ RGe(RSub(sim.runtime.state.time_elapsed, LastRecordedPurchase(sim)),
               R(IdleSeconds))

\* C38: throughout a run, under every strategy class (GreedyROI and its
\* speculative purchases included), the context's purchase count is the number
\* of recorded purchase events, its last-purchase time is the time of the most
\* recent one (0 before any), and the stall terminal is met exactly when the
\* time since that purchase reaches the threshold or a stall was flagged
C38_ContextFollowsPurchases ==
    ContextFollowsPurchases(simT) /\ ContextFollowsPurchases(simJ)

\* a GreedyROI run that bought at a time later than 0 and then stayed idle until
\* the stall terminal was met without a stall being flagged
C38_Witness ==
    /\ "runtime" \in DOMAIN strat.tick
    /\ "prestige_mode" \in DOMAIN strat.tick
    /\ simT.collector.purchases # <<>>
    /\ RGt(simT.context.last_purchase_time, R(0))
    /\ ~simT.context.stall_detected
    /\ StallMet(simT)

----------------------------------------------------------------------------
(* The lists a successful trigger_prestige returns (Spec)                   *)

\* what the successful call just made granted to the currency
Granted(cid) ==
    IF get_prestige_layer(last'.arg)[1].prestige_currency = cid
    THEN last'.result.reward_amount ELSE R(0)

\* the call reset the currency: balance and total-earned restart from the
\* initial value (plus the reward, for the prestige currency)
CurrencyWasReset(cid) ==
    /\ rt'.state.currencies[cid].current =
            RAdd(get_currency(cid)[1].initial_value, Granted(cid))
    /\ rt'.state.currencies[cid].total_earned =
            RAdd(get_currency(cid)[1].initial_value, Granted(cid))

\* the call left the currency alone, the reward apart
CurrencyUntouched(cid) ==
    /\ rt'.state.currencies[cid].current =
            RAdd(rt.state.currencies[cid].current, Granted(cid))
    /\ rt'.state.currencies[cid].total_earned =
            RAdd(rt.state.currencies[cid].total_earned, Granted(cid))

\* C39: after a successful trigger_prestige, every currency named in
\* currencies_reset and every element named in elements_reset has been reset
\* (the element's count is 0), and every other currency and element keeps its
\* balance, total-earned or count
C39_ResetListsExact ==
    [][(last'.op = "trigger_prestige" /\ last'.result.success) =>
        /\ \A cid \in DOMAIN rt.state.currencies :
            IF cid \in Range(last'.result.currencies_reset)
            THEN CurrencyWasReset(cid) ELSE CurrencyUntouched(cid)
        /\ \A eid \in DOMAIN rt.state.elements :
            IF eid \in Range(last'.result.elements_reset)
            THEN rt'.state.elements[eid].count = 0
            ELSE rt'.state.elements[eid].count = rt.state.elements[eid].count]_vars


----------------------------------------------------------------------------
(* Splitting a tick (SpecClick)                                             *)

\* the lengths a wait is split into
SplitDeltas == {Half, R(1), R(2)}

\* the same balances, totals earned and elapsed time
SameAccounts(s1, s2) ==
    /\ s1.time_elapsed = s2.time_elapsed
    /\ \A cid \in DOMAIN s1.currencies :
        /\ s1.currencies[cid].current = s2.currencies[cid].current
        /\ s1.currencies[cid].total_earned = s2.currencies[cid].total_earned

\* constant effect values: the effects are active or inactive alike before (s0),
\* between (s1) and after (s2) the two ticks
SteadyEffects(effs, s0, s1, s2) ==
    \A i \in DOMAIN effs :
        /\ is_active(effs[i], s1) = is_active(effs[i], s0)
        /\ is_active(effs[i], s2) = is_active(effs[i], s0)

\* the rates are non-negative
NonNegativeRates(st) ==
    \A cid \in DOMAIN st.currencies : RGe(currency_rate(st, cid), R(0))

\* tick(a) then tick(b) on r against tick(a+b) on r, when the effects of the
\* owned elements stay as they are and the rates the ticks use are non-negative
SplitEqualsWhole(r, a, b) ==
    \A r1 \in {tick(r, a)} : \A r2 \in {tick(r1, b)} :
        (SteadyEffects(OwnedEffects(r.state), r.state, r1.state, r2.state)
            /\ NonNegativeRates(r1.state))
        => \A whole \in {tick(r, RAdd(a, b))} : SameAccounts(r2.state, whole.state)

\* tick(0) changes no balance, total earned or elapsed time
ZeroTickKeeps(r) == \A r0 \in {tick(r, R(0))} : SameAccounts(r0.state, r.state)

\* no owned element has an AUTO_CLICK effect on a capped currency
NoAutoClickOnCapped(st) ==
    \A i \in DOMAIN OwnedEffects(st) :
        OwnedEffects(st)[i].type = "AUTO_CLICK"
            => _resolve_cap(st, OwnedEffects(st)[i].target) = None

\* every capped currency is within its resolved cap
WithinAllCaps(st) ==
    \A cid \in DOMAIN st.currencies :
        _resolve_cap(st, cid) # None
            => RLe(currency_value(st, cid), _resolve_cap(st, cid)[1])

\* C40 as stated: from any state, with the same effects active throughout and
\* non-negative rates, tick(a) then tick(b) gives the balances, totals earned
\* and elapsed time of tick(a+b), and tick(0) changes none of them
C40_SplitTickEqualsWholeTick ==
    /\ \A a, b \in SplitDeltas : SplitEqualsWhole(rt, a, b)
    /\ ZeroTickKeeps(rt)

\* C40 amended: the two ticks equal the whole one when, besides, no owned
\* AUTO_CLICK effect targets a capped currency; tick(0) changes no balance,
\* total earned or elapsed time when every balance is within its cap
C40_SplitTickEqualsWholeTickWithinCaps ==
    /\ NoAutoClickOnCapped(rt.state) => \A a, b \in SplitDeltas : SplitEqualsWhole(rt, a, b)
    /\ WithinAllCaps(rt.state) => ZeroTickKeeps(rt)

\* production has filled gold up to its cap, no auto-click is owned, and the
\* ticks that follow are clamped
C40_Witness ==
    /\ last.op = "tick"
    /\ NoAutoClickOnCapped(rt.state)
    /\ RGt(currency_rate(rt.state, "gold"), R(0))
    /\ _resolve_cap(rt.state, "gold") = Some(currency_value(rt.state, "gold"))
    /\ RGe(rt.state.time_elapsed, R(2))

====
